---- MODULE Spec2Model ----
(***************************************************************************)
(* Model of the auto-approve audit (copilot audit-auto-approve): the       *)
(* pattern classifier and the health aggregator of auditAutoApprove.       *)
(* A rule pattern is a sequence of one-character strings; the regular      *)
(* expressions of the source are sequences of elements matched by a small  *)
(* backtracking matcher with the semantics of RegExp.prototype.test.       *)
(***************************************************************************)
EXTENDS Integers, Sequences, FiniteSets, TLC

\* ------------------------------------------------------------------------
\* Characters and regular expressions
\* ------------------------------------------------------------------------

\* The stand-in for the character U+0000.
NUL == "NUL"

\* The stand-in for the character U+0060, which a TLA+ string cannot hold.
BackTick == "BT"

\* What \s accepts.
WhiteSpace == {" ", "\t", "\n", "\r", "\f"}

\* What . does not accept.
LineTerminators == {"\n", "\r"}

\* The class [A-Za-z0-9_-].
IdentChars ==
  {"a","b","c","d","e","f","g","h","i","j","k","l","m",
   "n","o","p","q","r","s","t","u","v","w","x","y","z",
   "A","B","C","D","E","F","G","H","I","J","K","L","M",
   "N","O","P","Q","R","S","T","U","V","W","X","Y","Z",
   "0","1","2","3","4","5","6","7","8","9","_","-"}

\* Regular-expression elements: a character test and a quantifier.
Lit(c) == [k |-> "lit", c |-> c, q |-> "1"]

Space == [k |-> "space", c |-> " ", q |-> "1"]

Dot == [k |-> "dot", c |-> ".", q |-> "1"]

Ident == [k |-> "ident", c |-> "_", q |-> "1"]

Plus(e) == [e EXCEPT !.q = "+"]

Star(e) == [e EXCEPT !.q = "*"]

\* A regular expression: ^ anchor, elements, $ anchor.
Rx(start, elems, end) == [start |-> start, elems |-> elems, end |-> end]

\* The elements matching the characters of s literally.
Str(s) == [i \in 1..Len(s) |-> Lit(s[i])]

Accepts(e, c) ==
  CASE e.k = "lit" -> c = e.c
    [] e.k = "space" -> c \in WhiteSpace
    [] e.k = "dot" -> c \notin LineTerminators
    [] e.k = "ident" -> c \in IdentChars

\* Elements k.. of re match p from position i on (to the end when end).
RECURSIVE MatchHere(_, _, _, _, _)
MatchHere(re, k, p, i, end) ==
  IF k > Len(re)
  THEN (end => i = Len(p) + 1)
  ELSE LET e == re[k]
           one == i <= Len(p) /\ Accepts(e, p[i])
       IN CASE e.q = "1" -> one /\ MatchHere(re, k + 1, p, i + 1, end)
            [] e.q = "*" -> \/ MatchHere(re, k + 1, p, i, end)
                            \/ one /\ MatchHere(re, k, p, i + 1, end)
            [] e.q = "+" -> one /\ MatchHere(<<Star(e)>> \o SubSeq(re, k + 1, Len(re)),
                                             1, p, i + 1, end)

\* RegExp.prototype.test
Test(rx, p) ==
  \E i \in (IF rx.start THEN {1} ELSE 1..(Len(p) + 1)) :
    MatchHere(rx.elems, 1, p, i, rx.end)

\* Array.prototype.some over a list of regular expressions
SomeTest(rxs, p) == \E n \in 1..Len(rxs) : Test(rxs[n], p)

\* String.prototype.includes
Includes(p, s) == Test(Rx(FALSE, Str(s), FALSE), p)

\* (pattern.match(/c/g) || []).length
CountChar(p, c) == Cardinality({i \in 1..Len(p) : p[i] = c})

\* ------------------------------------------------------------------------
\* Pattern classifier
\* ------------------------------------------------------------------------

\* Alternations (sh|bash|zsh) are written out as one expression each.
RISKY_PATTERNS == <<
  Rx(FALSE, <<Lit("*"), Lit("*")>>, FALSE),
  Rx(FALSE, <<Lit("."), Lit(".")>>, FALSE),
  Rx(TRUE, <<Lit("/")>>, FALSE),
  Rx(TRUE, <<Lit("~"), Lit("/")>>, FALSE),
  Rx(FALSE, <<Lit("/"), Lit("."), Lit(".")>>, FALSE),
  Rx(FALSE, <<Lit("/"), Plus(Lit("/"))>>, FALSE),
  Rx(FALSE, <<Lit("s"), Lit("u"), Lit("d"), Lit("o")>>, FALSE),
  Rx(FALSE, <<Lit("s"), Lit("u"), Space>>, FALSE),
  Rx(FALSE, <<Lit("c"), Lit("h"), Lit("m"), Lit("o"), Lit("d"), Plus(Space), Lit("7"), Lit("7"), Lit("7")>>, FALSE),
  Rx(FALSE, <<Lit("c"), Lit("h"), Lit("o"), Lit("w"), Lit("n"), Plus(Space), Lit("r"), Lit("o"), Lit("o"), Lit("t")>>, FALSE),
  Rx(FALSE, <<Lit("c"), Lit("h"), Lit("o"), Lit("w"), Lit("n"), Plus(Space), Lit("0")>>, FALSE),
  Rx(FALSE, <<Lit("d"), Lit("d"), Plus(Space), Lit("i"), Lit("f"), Lit("=")>>, FALSE),
  Rx(FALSE, <<Lit("m"), Lit("k"), Lit("f"), Lit("s")>>, FALSE),
  Rx(FALSE, <<Lit("f"), Lit("d"), Lit("i"), Lit("s"), Lit("k")>>, FALSE),
  Rx(FALSE, <<Lit("f"), Lit("o"), Lit("r"), Lit("m"), Lit("a"), Lit("t")>>, FALSE),
  Rx(FALSE, <<Lit("s"), Lit("h"), Lit("u"), Lit("t"), Lit("d"), Lit("o"), Lit("w"), Lit("n")>>, FALSE),
  Rx(FALSE, <<Lit("r"), Lit("e"), Lit("b"), Lit("o"), Lit("o"), Lit("t")>>, FALSE),
  Rx(FALSE, <<Lit("h"), Lit("a"), Lit("l"), Lit("t")>>, FALSE),
  Rx(FALSE, <<Lit("p"), Lit("o"), Lit("w"), Lit("e"), Lit("r"), Lit("o"), Lit("f"), Lit("f")>>, FALSE),
  Rx(FALSE, <<Lit("k"), Lit("i"), Lit("l"), Lit("l"), Lit("a"), Lit("l"), Lit("l")>>, FALSE),
  Rx(FALSE, <<Lit("p"), Lit("k"), Lit("i"), Lit("l"), Lit("l"), Plus(Space), Lit("-"), Lit("9")>>, FALSE),
  Rx(FALSE, <<Lit("c"), Lit("u"), Lit("r"), Lit("l"), Star(Dot), Lit("|"), Star(Space), Lit("s"), Lit("h")>>, FALSE),
  Rx(FALSE, <<Lit("c"), Lit("u"), Lit("r"), Lit("l"), Star(Dot), Lit("|"), Star(Space), Lit("b"), Lit("a"), Lit("s"), Lit("h")>>, FALSE),
  Rx(FALSE, <<Lit("c"), Lit("u"), Lit("r"), Lit("l"), Star(Dot), Lit("|"), Star(Space), Lit("z"), Lit("s"), Lit("h")>>, FALSE),
  Rx(FALSE, <<Lit("w"), Lit("g"), Lit("e"), Lit("t"), Star(Dot), Lit("|"), Star(Space), Lit("s"), Lit("h")>>, FALSE),
  Rx(FALSE, <<Lit("w"), Lit("g"), Lit("e"), Lit("t"), Star(Dot), Lit("|"), Star(Space), Lit("b"), Lit("a"), Lit("s"), Lit("h")>>, FALSE),
  Rx(FALSE, <<Lit("w"), Lit("g"), Lit("e"), Lit("t"), Star(Dot), Lit("|"), Star(Space), Lit("z"), Lit("s"), Lit("h")>>, FALSE),
  Rx(FALSE, <<Lit("s"), Lit("s"), Lit("h"), Space>>, FALSE),
  Rx(FALSE, <<Lit("s"), Lit("c"), Lit("p"), Space>>, FALSE),
  Rx(FALSE, <<Lit("r"), Lit("s"), Lit("y"), Lit("n"), Lit("c")>>, FALSE),
  Rx(FALSE, <<Lit("e"), Lit("v"), Lit("a"), Lit("l")>>, FALSE),
  Rx(FALSE, <<Lit("e"), Lit("x"), Lit("e"), Lit("c")>>, FALSE),
  Rx(FALSE, <<Lit("s"), Lit("y"), Lit("s"), Lit("t"), Lit("e"), Lit("m")>>, FALSE),
  Rx(FALSE, <<Lit("p"), Lit("o"), Lit("p"), Lit("e"), Lit("n")>>, FALSE),
  Rx(FALSE, <<Lit("s"), Lit("u"), Lit("b"), Lit("p"), Lit("r"), Lit("o"), Lit("c"), Lit("e"), Lit("s"), Lit("s")>>, FALSE),
  Rx(FALSE, <<Lit("s"), Lit("p"), Lit("a"), Lit("w"), Lit("n")>>, FALSE),
  Rx(FALSE, <<Lit("n"), Lit("o"), Lit("d"), Lit("e"), Plus(Space), Lit("-"), Lit("e")>>, FALSE),
  Rx(FALSE, <<Lit("p"), Lit("y"), Lit("t"), Lit("h"), Lit("o"), Lit("n"), Plus(Space), Lit("-"), Lit("c")>>, FALSE),
  Rx(FALSE, <<Lit("p"), Lit("e"), Lit("r"), Lit("l"), Plus(Space), Lit("-"), Lit("e")>>, FALSE),
  Rx(FALSE, <<Lit("r"), Lit("u"), Lit("b"), Lit("y"), Plus(Space), Lit("-"), Lit("e")>>, FALSE),
  Rx(FALSE, <<Lit("~"), Lit("/"), Lit("."), Lit("s"), Lit("s"), Lit("h")>>, FALSE),
  Rx(FALSE, <<Lit("/"), Lit("e"), Lit("t"), Lit("c"), Lit("/"), Lit("p"), Lit("a"), Lit("s"), Lit("s"), Lit("w"), Lit("d")>>, FALSE),
  Rx(FALSE, <<Lit("/"), Lit("e"), Lit("t"), Lit("c"), Lit("/"), Lit("s"), Lit("h"), Lit("a"), Lit("d"), Lit("o"), Lit("w")>>, FALSE),
  Rx(FALSE, <<Lit("/"), Lit("e"), Lit("t"), Lit("c"), Lit("/"), Lit("s"), Lit("u"), Lit("d"), Lit("o"), Lit("e"), Lit("r"), Lit("s")>>, FALSE),
  Rx(FALSE, <<Lit("/"), Lit("r"), Lit("o"), Lit("o"), Lit("t")>>, FALSE),
  Rx(FALSE, <<Lit("/"), Lit("h"), Lit("o"), Lit("m"), Lit("e")>>, FALSE),
  Rx(FALSE, <<Lit("/"), Lit("v"), Lit("a"), Lit("r"), Lit("/"), Lit("l"), Lit("o"), Lit("g")>>, FALSE),
  Rx(FALSE, <<Lit("/"), Lit("p"), Lit("r"), Lit("o"), Lit("c")>>, FALSE),
  Rx(FALSE, <<Lit("/"), Lit("s"), Lit("y"), Lit("s")>>, FALSE),
  Rx(FALSE, <<Lit("m"), Lit("y"), Lit("s"), Lit("q"), Lit("l"), Plus(Space)>>, FALSE),
  Rx(FALSE, <<Lit("p"), Lit("s"), Lit("q"), Lit("l"), Plus(Space)>>, FALSE),
  Rx(FALSE, <<Lit("m"), Lit("o"), Lit("n"), Lit("g"), Lit("o"), Plus(Space)>>, FALSE),
  Rx(FALSE, <<Lit("r"), Lit("e"), Lit("d"), Lit("i"), Lit("s"), Lit("-"), Lit("c"), Lit("l"), Lit("i")>>, FALSE),
  Rx(FALSE, <<Lit("n"), Lit("p"), Lit("m"), Plus(Space), Lit("i"), Lit("n"), Lit("s"), Lit("t"), Lit("a"), Lit("l"), Lit("l"), Plus(Space), Star(Dot), Lit("-"), Lit("g")>>, FALSE),
  Rx(FALSE, <<Lit("p"), Lit("i"), Lit("p"), Plus(Space), Lit("i"), Lit("n"), Lit("s"), Lit("t"), Lit("a"), Lit("l"), Lit("l"), Plus(Space), Star(Dot), Lit("-"), Lit("-"), Lit("u"), Lit("s"), Lit("e"), Lit("r")>>, FALSE),
  Rx(FALSE, <<Lit("a"), Lit("p"), Lit("t"), Lit("-"), Lit("g"), Lit("e"), Lit("t"), Plus(Space), Lit("i"), Lit("n"), Lit("s"), Lit("t"), Lit("a"), Lit("l"), Lit("l")>>, FALSE),
  Rx(FALSE, <<Lit("y"), Lit("u"), Lit("m"), Plus(Space), Lit("i"), Lit("n"), Lit("s"), Lit("t"), Lit("a"), Lit("l"), Lit("l")>>, FALSE),
  Rx(FALSE, <<Lit("b"), Lit("r"), Lit("e"), Lit("w"), Plus(Space), Lit("i"), Lit("n"), Lit("s"), Lit("t"), Lit("a"), Lit("l"), Lit("l")>>, FALSE),
  Rx(FALSE, <<Lit("g"), Lit("i"), Lit("t"), Plus(Space), Lit("p"), Lit("u"), Lit("s"), Lit("h"), Plus(Space), Lit("-"), Lit("-"), Lit("f"), Lit("o"), Lit("r"), Lit("c"), Lit("e")>>, FALSE),
  Rx(FALSE, <<Lit("g"), Lit("i"), Lit("t"), Plus(Space), Lit("r"), Lit("e"), Lit("s"), Lit("e"), Lit("t"), Plus(Space), Lit("-"), Lit("-"), Lit("h"), Lit("a"), Lit("r"), Lit("d")>>, FALSE),
  Rx(FALSE, <<Lit("g"), Lit("i"), Lit("t"), Plus(Space), Lit("c"), Lit("l"), Lit("e"), Lit("a"), Lit("n"), Plus(Space), Lit("-"), Lit("f"), Lit("d")>>, FALSE),
  Rx(FALSE, <<Lit(BackTick), Star(Dot), Lit(BackTick)>>, FALSE),
  Rx(FALSE, <<Lit("$"), Lit("("), Star(Dot), Lit(")")>>, FALSE),
  Rx(FALSE, <<Lit(">"), Star(Space), Lit("/"), Lit("d"), Lit("e"), Lit("v"), Lit("/"), Lit("n"), Lit("u"), Lit("l"), Lit("l")>>, FALSE),
  Rx(FALSE, <<Lit("&"), Star(Space)>>, TRUE),
  Rx(FALSE, <<Lit(";"), Star(Space)>>, TRUE),
  Rx(FALSE, <<Lit("|"), Star(Space)>>, TRUE),
  Rx(FALSE, <<Lit("&"), Lit("&"), Star(Space)>>, TRUE),
  Rx(FALSE, <<Lit("|"), Lit("|"), Star(Space)>>, TRUE),
  Rx(FALSE, <<Lit("P"), Lit("A"), Lit("T"), Lit("H"), Lit("=")>>, FALSE),
  Rx(FALSE, <<Lit("L"), Lit("D"), Lit("_"), Lit("L"), Lit("I"), Lit("B"), Lit("R"), Lit("A"), Lit("R"), Lit("Y"), Lit("_"), Lit("P"), Lit("A"), Lit("T"), Lit("H"), Lit("=")>>, FALSE),
  Rx(FALSE, <<Lit("L"), Lit("D"), Lit("_"), Lit("P"), Lit("R"), Lit("E"), Lit("L"), Lit("O"), Lit("A"), Lit("D"), Lit("=")>>, FALSE) >>

SAFE_RM_TARGETS == <<
  Rx(FALSE, <<Lit("n"), Lit("o"), Lit("d"), Lit("e"), Lit("_"), Lit("m"), Lit("o"), Lit("d"), Lit("u"), Lit("l"), Lit("e"), Lit("s")>>, FALSE),
  Rx(FALSE, <<Lit("b"), Lit("u"), Lit("i"), Lit("l"), Lit("d")>>, FALSE),
  Rx(FALSE, <<Lit("d"), Lit("i"), Lit("s"), Lit("t")>>, FALSE),
  Rx(FALSE, <<Dot, Lit("n"), Lit("e"), Lit("x"), Lit("t")>>, FALSE),
  Rx(FALSE, <<Lit("o"), Lit("u"), Lit("t")>>, FALSE),
  Rx(FALSE, <<Lit("."), Lit("c"), Lit("a"), Lit("c"), Lit("h"), Lit("e")>>, FALSE),
  Rx(FALSE, <<Lit("."), Lit("t"), Lit("m"), Lit("p")>>, FALSE),
  Rx(FALSE, <<Lit("t"), Lit("e"), Lit("m"), Lit("p")>>, FALSE),
  Rx(FALSE, <<Lit("t"), Lit("m"), Lit("p")>>, FALSE) >>

DANGEROUS_RM_PATTERNS == <<
  Rx(FALSE, <<Lit("*")>>, FALSE),
  Rx(FALSE, <<Lit("."), Lit(".")>>, FALSE),
  Rx(TRUE, <<Lit("/")>>, FALSE),
  Rx(TRUE, <<Lit("~"), Lit("/")>>, FALSE),
  Rx(FALSE, <<Lit("."), Lit(".")>>, FALSE) >>

\* isDangerousRmRf without the safe build-artifact targets
isDangerousRmRf_NoSafeTargets(pattern) ==
  Test(Rx(FALSE, <<Lit("r"), Lit("m"), Plus(Space), Lit("-"), Lit("r"), Lit("f")>>, FALSE), pattern)

isDangerousRmRf(pattern) ==
  IF Test(Rx(FALSE, <<Lit("r"), Lit("m"), Plus(Space), Lit("-"), Lit("r"), Lit("f")>>, FALSE), pattern)
  THEN IF SomeTest(DANGEROUS_RM_PATTERNS, pattern)
       THEN TRUE
       ELSE ~SomeTest(SAFE_RM_TARGETS, pattern)
  ELSE FALSE

\* pattern.length > 1000
MaxPatternLength == 1000

\* The issues in the order the source pushes them.
SyntaxChecks(pattern) == <<
  [hit |-> CountChar(pattern, "'") % 2 # 0, issue |-> <<"u", "n", "t", "e", "r", "m", "i", "n", "a", "t", "e", "d", " ", "s", "i", "n", "g", "l", "e", " ", "q", "u", "o", "t", "e", "s">>],
  [hit |-> CountChar(pattern, "\"") % 2 # 0, issue |-> <<"u", "n", "t", "e", "r", "m", "i", "n", "a", "t", "e", "d", " ", "d", "o", "u", "b", "l", "e", " ", "q", "u", "o", "t", "e", "s">>],
  [hit |-> CountChar(pattern, BackTick) % 2 # 0, issue |-> <<"u", "n", "t", "e", "r", "m", "i", "n", "a", "t", "e", "d", " ", "b", "a", "c", "k", "t", "i", "c", "k", "s">>],
  [hit |-> CountChar(pattern, "(") # CountChar(pattern, ")"),
   issue |-> <<"u", "n", "b", "a", "l", "a", "n", "c", "e", "d", " ", "p", "a", "r", "e", "n", "t", "h", "e", "s", "e", "s">>],
  [hit |-> CountChar(pattern, "[") # CountChar(pattern, "]"),
   issue |-> <<"u", "n", "b", "a", "l", "a", "n", "c", "e", "d", " ", "b", "r", "a", "c", "k", "e", "t", "s">>],
  [hit |-> CountChar(pattern, "{") # CountChar(pattern, "}"),
   issue |-> <<"u", "n", "b", "a", "l", "a", "n", "c", "e", "d", " ", "b", "r", "a", "c", "e", "s">>],
  [hit |-> Includes(pattern, <<"/", ".", ".", "/">>) \/ Includes(pattern, <<"\\", ".", ".", "\\">>),
   issue |-> <<"d", "i", "r", "e", "c", "t", "o", "r", "y", " ", "t", "r", "a", "v", "e", "r", "s", "a", "l", " ", "(", ".", ".", ")">>],
  [hit |-> Includes(pattern, <<NUL>>), issue |-> <<"n", "u", "l", "l", " ", "b", "y", "t", "e", "s", " ", "d", "e", "t", "e", "c", "t", "e", "d">>],
  [hit |-> Len(pattern) > MaxPatternLength, issue |-> <<"p", "a", "t", "t", "e", "r", "n", " ", "t", "o", "o", " ", "l", "o", "n", "g">>] >>

validatePatternSyntax(pattern) ==
  LET checks == SyntaxChecks(pattern)
      issues == SelectSeq(checks, LAMBDA c : c.hit)
  IN [valid |-> Len(issues) = 0,
      issues |-> [n \in 1..Len(issues) |-> issues[n].issue]]

\* ------------------------------------------------------------------------
\* Allow-list
\* ------------------------------------------------------------------------

\* Array.prototype.join
RECURSIVE Join(_, _)
Join(strs, sep) ==
  IF Len(strs) = 0 THEN <<>>
  ELSE IF Len(strs) = 1 THEN strs[1]
  ELSE strs[1] \o sep \o Join(Tail(strs), sep)

\* String.prototype.split on a one-character separator
RECURSIVE Split(_, _)
Split(s, sep) ==
  IF \E i \in 1..Len(s) : s[i] = sep
  THEN LET i == CHOOSE j \in 1..Len(s) : s[j] = sep /\ \A h \in 1..(j - 1) : s[h] # sep
       IN <<SubSeq(s, 1, i - 1)>> \o Split(SubSeq(s, i + 1, Len(s)), sep)
  ELSE <<s>>

\* String.prototype.trim
RECURSIVE Trim(_)
Trim(s) ==
  IF Len(s) = 0 THEN s
  ELSE IF s[1] \in WhiteSpace THEN Trim(Tail(s))
  ELSE IF s[Len(s)] \in WhiteSpace THEN Trim(SubSeq(s, 1, Len(s) - 1))
  ELSE s

\* The absent option value (undefined).
Undefined == <<"undefined">>

\* opts.allowPrefix ? opts.allowPrefix.split(",").map(trim).filter(Boolean) : []
ExplicitPrefixes(allowPrefix) ==
  IF allowPrefix = Undefined \/ Len(allowPrefix) = 0
  THEN <<>>
  ELSE LET parts == Split(allowPrefix, ",")
           trimmed == [n \in 1..Len(parts) |-> Trim(parts[n])]
       IN SelectSeq(trimmed, LAMBDA s : Len(s) > 0)

\* The characters p.replace(/[-/\\^$*+?.()|[\]{}]/g, "\\$&") escapes.
RegexSpecials ==
  {"-", "/", "\\", "^", "$", "*", "+", "?", ".", "(", ")", "|", "[", "]", "{", "}"}

\* The prefix embedded without escaping
EscapeRegex_None(s) == s

\* p.replace(/[-/\\^$*+?.()|[\]{}]/g, "\\$&")
RECURSIVE EscapeRegex(_)
EscapeRegex(s) ==
  IF Len(s) = 0 THEN <<>>
  ELSE (IF s[1] \in RegexSpecials THEN <<"\\", s[1]>> ELSE <<s[1]>>)
       \o EscapeRegex(Tail(s))

\* new RegExp on the text of one alternative: \c is the character c, an
\* unescaped . is any character, every other character is itself.
RECURSIVE ParseAlternative(_)
ParseAlternative(src) ==
  IF Len(src) = 0 THEN <<>>
  ELSE IF src[1] = "\\" /\ Len(src) >= 2
       THEN <<Lit(src[2])>> \o ParseAlternative(SubSeq(src, 3, Len(src)))
  ELSE IF src[1] = "."
       THEN <<Dot>> \o ParseAlternative(Tail(src))
  ELSE <<Lit(src[1])>> \o ParseAlternative(Tail(src))

\* ^:(alt)-[A-Za-z0-9_-]+(:[A-Za-z0-9_-]+)?$|^:clean$ as the list of its
\* alternatives: per prefix the form without and with the optional group.
buildSafeTemplate(prefixes) ==
  LET alt == IF Len(prefixes) = 0 THEN <<<<>>>>
             ELSE [n \in 1..Len(prefixes) |-> ParseAlternative(EscapeRegex(prefixes[n]))]
      module == [n \in 1..Len(alt) |->
                  Rx(TRUE, <<Lit(":")>> \o alt[n] \o <<Lit("-"), Plus(Ident)>>, TRUE)]
      task == [n \in 1..Len(alt) |->
                  Rx(TRUE, <<Lit(":")>> \o alt[n]
                           \o <<Lit("-"), Plus(Ident), Lit(":"), Plus(Ident)>>, TRUE)]
  IN module \o task \o <<Rx(TRUE, <<Lit(":"), Lit("c"), Lit("l"), Lit("e"), Lit("a"), Lit("n")>>, TRUE)>>

\* pattern.match(/^:([a-zA-Z0-9_-]+)-/): the greedy group, or "unknown".
ExtractPrefix(pattern) ==
  LET ends == {j \in 3..Len(pattern) :
                 /\ pattern[1] = ":"
                 /\ pattern[j] = "-"
                 /\ \A h \in 2..(j - 1) : pattern[h] \in IdentChars}
  IN IF ends = {} THEN <<"u", "n", "k", "n", "o", "w", "n">>
     ELSE LET j == CHOOSE m \in ends : \A n \in ends : n <= m
          IN SubSeq(pattern, 2, j - 1)

\* The verdict without the syntax check
isRisky_NoSyntax(pattern, explicitPrefixes) ==
  \/ SomeTest(RISKY_PATTERNS, pattern)
  \/ isDangerousRmRf(pattern)
  \/ Len(explicitPrefixes) > 0 /\ ~SomeTest(buildSafeTemplate(explicitPrefixes), pattern)

\* The verdict of lines 311-329: the four checks and their disjunction.
isRisky(pattern, explicitPrefixes) ==
  LET syntaxValidation == validatePatternSyntax(pattern)
      isRiskyPattern == SomeTest(RISKY_PATTERNS, pattern)
      isDangerousRm == isDangerousRmRf(pattern)
      isAllowed == IF Len(explicitPrefixes) > 0
                   THEN SomeTest(buildSafeTemplate(explicitPrefixes), pattern)
                   ELSE TRUE
  IN isRiskyPattern \/ isDangerousRm \/ ~isAllowed \/ ~syntaxValidation.valid

\* ------------------------------------------------------------------------
\* Inputs: settings files, the file system and the options
\* ------------------------------------------------------------------------

\* The longest directory walk.
MaxFiles == 2

\* JSON values of a rule map; typeof is "boolean" for the first two.
JsonValues == {"true", "false", "string", "number", "null"}

\* typeof taking a string for a boolean
TypeofBoolean_StringToo(val) == val \in {"true", "false", "string"}

TypeofBoolean(val) == val \in {"true", "false"}

Entry(pattern, val) == [pattern |-> pattern, val |-> val]

\* A settings file whose "chat.tools.terminal.autoApprove" is an object.
RuleMap(entries) == [kind |-> "json", shape |-> "object", entries |-> entries]

\* A settings file whose "chat.tools.terminal.autoApprove" is not an object:
\* absent, null, array, string or number.
WrongShape(shape) == [kind |-> "json", shape |-> shape, entries |-> <<>>]

\* A file that cannot be read, does not parse, or parses to null.
NoData(kind) == [kind |-> kind, shape |-> "absent", entries |-> <<>>]

\* A file whose text holds a rule map and that JSON.parse rejects.
Unparsable(entries) == [kind |-> "malformed", shape |-> "object", entries |-> entries]

\* The content of every path of the file system.
Content ==
  [ user       |-> RuleMap(<<Entry(<<":", "u", "s", "e", "r", "-", "t", "a", "s", "k">>, "true")>>),
    scenarioA  |-> RuleMap(<<Entry(<<":", "t", "a", "c", "h", "y", "o", "n", "-", "b", "u", "i", "l", "d">>, "true"), Entry(<<":", "c", "l", "e", "a", "n">>, "true")>>),
    scenarioB  |-> RuleMap(<<Entry(<<":", "t", "a", "c", "h", "y", "o", "n", "-", "b", "u", "i", "l", "d">>, "true"),
                             Entry(<<":", "u", "n", "k", "n", "o", "w", "n", "-", "t", "a", "s", "k">>, "true")>>),
    scenarioC  |-> RuleMap(<<Entry(<<":", "s", "a", "f", "e", "-", "t", "a", "s", "k">>, "true"),
                             Entry(<<":", "n", "o", "n", "-", "b", "o", "o", "l", "e", "a", "n", "-", "t", "a", "s", "k">>, "string")>>),
    scenarioD  |-> RuleMap(<<Entry(<<":", "b", "a", "d", ":", "r", "m", " ", "-", "r", "f", " ", "/">>, "true"),
                             Entry(<<":", "b", "a", "d", ":", "r", "m", " ", "-", "r", "f", " ", "*">>, "true")>>),
    disabled   |-> RuleMap(<<Entry(<<":", "u", "n", "k", "n", "o", "w", "n", "-", "t", "a", "s", "k">>, "false"),
                             Entry(<<":", "t", "a", "c", "h", "y", "o", "n", "-", "b", "u", "i", "l", "d">>, "false")>>),
    mixed      |-> RuleMap(<<Entry(<<":", "s", "a", "f", "e", ":", "b", "u", "i", "l", "d">>, "true"),
                             Entry(<<":", "i", "n", "v", "a", "l", "i", "d", "[", "p", "a", "t", "t", "e", "r", "n">>, "true"),
                             Entry(<<":", "a", "x", "b", "-", "b", "u", "i", "l", "d">>, "true"),
                             Entry(<<":", "m", "i", "x", "e", "d", ":", "v", "a", "l", "u", "e">>, "number")>>),
    template   |-> RuleMap(<<Entry(<<":", "t", "a", "c", "h", "y", "o", "n", "-", "a", "r", "c", "h", "i", "v", "e", "r", ":", "d", "o", "w", "n", "l", "o", "a", "d", "Z", "s", "t", "d">>, "true"),
                             Entry(<<":", "t", "a", "c", "h", "y", "o", "n", "-", "a", ":", "b", ":", "c">>, "true"),
                             Entry(<<":", "t", "a", "c", "h", "y", "o", "n", "-">>, "true"),
                             Entry(<<":", "a", ".", "b", "-", "x">>, "true"),
                             Entry(<<"t", "a", "c", "h", "y", "o", "n", "-", "b", "u", "i", "l", "d">>, "true"),
                             Entry(<<":", "t", "a", "c", "h", "y", "o", "n", "-", "r", "e", "b", "o", "o", "t">>, "true")>>),
    safeTask   |-> RuleMap(<<Entry(<<":", "s", "a", "f", "e", ":", "t", "a", "s", "k">>, "true")>>),
    syntax     |-> RuleMap(<<Entry(<<":", "t", "a", "c", "h", "y", "o", "n", "-", "l", "i", "n", "t">>, "true"),
                             Entry(<<":", "t", "a", "c", "h", "y", "o", "n", "-", "r", "u", "n", "(", "x", "[">>, "true"),
                             Entry(<<":", "o", "t", "h", "e", "r", "-", "t", "a", "s", "k">>, "true"),
                             Entry(<<":", "t", "a", "c", "h", "y", "o", "n", "-", "s", "a", "y", "'", "h", "i">>, "false")>>),
    empty      |-> RuleMap(<<>>),
    absent     |-> WrongShape("absent"),
    null       |-> WrongShape("null"),
    array      |-> WrongShape("array"),
    string     |-> WrongShape("string"),
    number     |-> WrongShape("number"),
    unreadable |-> NoData("unreadable"),
    malformed  |-> Unparsable(<<Entry(<<":", "u", "n", "k", "n", "o", "w", "n", "-", "t", "a", "s", "k">>, "true"),
                                Entry(<<":", "c", "o", "m", "m", "e", "n", "t", "e", "d">>, "string")>>),
    jsonNull   |-> NoData("jsonNull") ]

\* ~/Library/Application Support/Code/User/settings.json
userSettingsPath == "user"

\* The files a directory walk may find.
WalkFiles == {"scenarioB", "scenarioC", "scenarioD", "disabled", "mixed", "empty", "malformed"}

\* The files of the walk when an explicit --settings-file is given.
WalkFilesBehindExplicit == {"scenarioB"}

\* The paths an explicit --settings-file may name.
ExplicitFiles == DOMAIN Content \ {userSettingsPath}

\* The values of --allow-prefix.
AllowPrefixes == {Undefined, <<>>, <<"t", "a", "c", "h", "y", "o", "n">>, <<" ", ",", " ">>, <<"s", "a", "f", "e", ",", " ", "a", ".", "b">>}

\* The sequences of distinct elements of s of length at most n.
Walks(s, n) ==
  {w \in UNION {[1..k -> s] : k \in 0..n} :
     \A i, j \in 1..Len(w) : i < j => w[i] # w[j]}

Range(seq) == {seq[i] : i \in 1..Len(seq)}

\* ------------------------------------------------------------------------
\* auditAutoApprove
\* ------------------------------------------------------------------------

VARIABLES
  opts,          \* the options of the run
  fs,            \* the file system: is the user file readable, the walk
  pc,            \* the position in auditAutoApprove
  settingsFiles, \* the files to audit
  fileIdx,       \* the index of the file of the outer loop
  entryIdx,      \* the index of the entry of the inner loop
  risky,         \* risky of the current file
  nonBoolean,    \* nonBoolean of the current file
  findings,      \* findings
  prefixHealth,  \* prefixHealth, in insertion order
  output,        \* the lines written with console.log
  exitCode,      \* the argument of exit(), or -1 when it was not called
  cls            \* the classifier applied to one input

auditVars == <<opts, fs, pc, settingsFiles, fileIdx, entryIdx, risky, nonBoolean,
               findings, prefixHealth, output, exitCode>>

vars == <<opts, fs, pc, settingsFiles, fileIdx, entryIdx, risky, nonBoolean,
          findings, prefixHealth, output, exitCode, cls>>

ClsIdle == [phase |-> "idle"]

InitAudit ==
  /\ opts \in [allowPrefix : AllowPrefixes, settingsFile : ExplicitFiles \cup {"undefined"},
               failOnRisk : BOOLEAN, json : BOOLEAN, silent : BOOLEAN,
               scanPrefixes : BOOLEAN]
  /\ fs \in [userReadable : BOOLEAN,
             walk : Walks(IF opts.settingsFile = "undefined"
                          THEN WalkFiles ELSE WalkFilesBehindExplicit, MaxFiles)]
  /\ pc = "start"
  /\ settingsFiles = <<>>
  /\ fileIdx = 1
  /\ entryIdx = 1
  /\ risky = <<>>
  /\ nonBoolean = <<>>
  /\ findings = <<>>
  /\ prefixHealth = <<>>
  /\ output = <<>>
  /\ exitCode = -1

Init == InitAudit /\ cls = ClsIdle

explicitPrefixes == ExplicitPrefixes(opts.allowPrefix)

\* The walk before the user file
readSettingsFiles_WalkFirst ==
  fs.walk \o (IF fs.userReadable THEN <<userSettingsPath>> ELSE <<>>)

\* readSettingsFiles: the user file when readable, then the walk.
readSettingsFiles ==
  (IF fs.userReadable THEN <<userSettingsPath>> ELSE <<>>) \o fs.walk

\* The explicit file in front of the discovered ones
ResolveSettingsFiles_AndDiscovered(settingsFile, discovered) ==
  IF settingsFile # "undefined" THEN <<settingsFile>> \o discovered ELSE discovered

\* Lines 269-271: the explicit file alone, or the discovered files.
ResolveSettingsFiles(settingsFile, discovered) ==
  IF settingsFile # "undefined" THEN <<settingsFile>> ELSE discovered

\* Lines 261-271: resolve the prefixes and the files to audit.
Begin ==
  /\ pc = "start"
  /\ settingsFiles' = ResolveSettingsFiles(opts.settingsFile, readSettingsFiles)
  /\ pc' = "file"
  /\ UNCHANGED <<opts, fs, fileIdx, entryIdx, risky, nonBoolean, findings,
                 prefixHealth, output, exitCode, cls>>

\* loadSettings taking the text of every file for parsed data
loadSettings_Lenient(file) == [Content[file] EXCEPT !.kind = "json"]

\* loadSettings: the parsed data, or null.
loadSettings(file) ==
  IF Content[file].kind = "json" THEN Content[file] ELSE [kind |-> "null"]

\* Lines 274-278 of the loop: the file has a rule map to iterate.
HasRuleMap(file) ==
  LET data == loadSettings(file)
  IN data.kind # "null" /\ data.shape = "object"

\* Lines 273-278: a file without data or without a rule map is skipped.
\* The loop left after the first file
AllFilesDone_AfterFirst(idx, files) == idx > Len(files) \/ idx > 1

\* Line 273: has `for (const file of settingsFiles)` passed the last file.
AllFilesDone(idx, files) == idx > Len(files)

SkipFile ==
  /\ pc = "file"
  /\ ~AllFilesDone(fileIdx, settingsFiles)
  /\ ~HasRuleMap(settingsFiles[fileIdx])
  /\ fileIdx' = fileIdx + 1
  /\ UNCHANGED <<opts, fs, pc, settingsFiles, entryIdx, risky, nonBoolean, findings,
                 prefixHealth, output, exitCode, cls>>

\* Lines 273-281: the rule map of the file is about to be iterated.
OpenFile ==
  /\ pc = "file"
  /\ ~AllFilesDone(fileIdx, settingsFiles)
  /\ HasRuleMap(settingsFiles[fileIdx])
  /\ risky' = <<>>
  /\ nonBoolean' = <<>>
  /\ entryIdx' = 1
  /\ pc' = "rules"
  /\ UNCHANGED <<opts, fs, settingsFiles, fileIdx, findings, prefixHealth, output,
                 exitCode, cls>>

\* Object.entries of the rule map of the current file.
CurrentEntries == Content[settingsFiles[fileIdx]].entries

\* Lines 286-289: a non-boolean value is recorded and not classified.
NonBooleanEntry ==
  /\ pc = "rules"
  /\ entryIdx <= Len(CurrentEntries)
  /\ ~TypeofBoolean(CurrentEntries[entryIdx].val)
  /\ nonBoolean' = Append(nonBoolean, CurrentEntries[entryIdx].pattern)
  /\ entryIdx' = entryIdx + 1
  /\ UNCHANGED <<opts, fs, pc, settingsFiles, fileIdx, risky, findings, prefixHealth,
                 output, exitCode, cls>>

NewHealth(prefix) ==
  [prefix |-> prefix, totalPatterns |-> 0, riskyPatterns |-> 0, safePatterns |-> 0,
   patterns |-> <<>>, riskyList |-> <<>>]

\* The entry found only when it is the one added last
HealthIndex_LastAdded(health, prefix) ==
  IF Len(health) > 0 /\ health[Len(health)].prefix = prefix
  THEN Len(health)
  ELSE 0

\* prefixHealth.get(prefix): the index of the entry, or 0.
HealthIndex(health, prefix) ==
  IF \E n \in 1..Len(health) : health[n].prefix = prefix
  THEN CHOOSE n \in 1..Len(health) : health[n].prefix = prefix
  ELSE 0

\* The health entry when a safe rule is not tallied
UpdateHealth_NoSafeTally(h, pattern, isRiskyVerdict) ==
  [h EXCEPT !.totalPatterns = @ + 1,
            !.patterns = Append(@, pattern),
            !.riskyPatterns = IF isRiskyVerdict THEN @ + 1 ELSE @,
            !.riskyList = IF isRiskyVerdict THEN Append(@, pattern) ELSE @]

\* The health entry when a risky rule is counted and not listed
UpdateHealth_NoRiskyList(h, pattern, isRiskyVerdict) ==
  [h EXCEPT !.totalPatterns = @ + 1,
            !.patterns = Append(@, pattern),
            !.riskyPatterns = IF isRiskyVerdict THEN @ + 1 ELSE @,
            !.safePatterns = IF isRiskyVerdict THEN @ ELSE @ + 1]

\* Lines 296-309 and 331-337: the health entry of the prefix after the rule.
UpdateHealth(h, pattern, isRiskyVerdict) ==
  [h EXCEPT !.totalPatterns = @ + 1,
            !.patterns = Append(@, pattern),
            !.riskyPatterns = IF isRiskyVerdict THEN @ + 1 ELSE @,
            !.riskyList = IF isRiskyVerdict THEN Append(@, pattern) ELSE @,
            !.safePatterns = IF isRiskyVerdict THEN @ ELSE @ + 1]

\* The rule patterns of the file system.
CatalogPatterns ==
  UNION {{Content[f].entries[n].pattern : n \in 1..Len(Content[f].entries)} :
           f \in DOMAIN Content}

\* Verdicts that turn risky once a Finding exists
VerdictOf_AfterFinding ==
  [a \in AllowPrefixes |->
    [p \in CatalogPatterns |-> Len(findings) > 0 \/ isRisky(p, ExplicitPrefixes(a))]]

\* Verdicts by the allow template alone when prefixes are given
VerdictOf_TemplateAlone ==
  [a \in AllowPrefixes |->
    [p \in CatalogPatterns |->
      IF Len(ExplicitPrefixes(a)) > 0
      THEN ~SomeTest(buildSafeTemplate(ExplicitPrefixes(a)), p)
      ELSE isRisky(p, ExplicitPrefixes(a))]]

\* isRisky and validatePatternSyntax over the inputs of the run, evaluated once.
VerdictOf ==
  [a \in AllowPrefixes |->
    [p \in CatalogPatterns |-> isRisky(p, ExplicitPrefixes(a))]]

SyntaxOf == [p \in CatalogPatterns |-> validatePatternSyntax(p)]

\* Lines 291-337: a boolean value is grouped by prefix and classified.
\* The label with the first issue only
SyntaxLabel_FirstIssue(issues) == <<"s", "y", "n", "t", "a", "x", " ", "i", "s", "s", "u", "e", "s", ":", " ">> \o issues[1]

\* Line 314: `syntax issues: ${syntaxValidation.issues.join(", ")}`
SyntaxLabel(issues) == <<"s", "y", "n", "t", "a", "x", " ", "i", "s", "s", "u", "e", "s", ":", " ">> \o Join(issues, <<",", " ">>)

BooleanEntry ==
  /\ pc = "rules"
  /\ entryIdx <= Len(CurrentEntries)
  /\ TypeofBoolean(CurrentEntries[entryIdx].val)
  /\ LET pattern == CurrentEntries[entryIdx].pattern
         prefix == ExtractPrefix(pattern)
         at == HealthIndex(prefixHealth, prefix)
         withEntry == IF at = 0 THEN Append(prefixHealth, NewHealth(prefix))
                      ELSE prefixHealth
         n == IF at = 0 THEN Len(withEntry) ELSE at
         syntaxValidation == SyntaxOf[pattern]
         label == SyntaxLabel(syntaxValidation.issues)
         verdict == VerdictOf[opts.allowPrefix][pattern]
     IN /\ prefixHealth' = [withEntry EXCEPT ![n] = UpdateHealth(@, pattern, verdict)]
        /\ risky' = risky
                    \o (IF syntaxValidation.valid THEN <<>> ELSE <<label>>)
                    \o (IF verdict THEN <<pattern>> ELSE <<>>)
  /\ entryIdx' = entryIdx + 1
  /\ UNCHANGED <<opts, fs, pc, settingsFiles, fileIdx, nonBoolean, findings, output,
                 exitCode, cls>>

\* A Finding only for risky rules
EmitsFinding_RiskyOnly(riskyOfFile, nonBooleanOfFile) ==
  Len(riskyOfFile) > 0

\* Lines 340-344: the Finding of the file; nonBoolean is set when not empty.
EmitsFinding(riskyOfFile, nonBooleanOfFile) ==
  Len(riskyOfFile) > 0 \/ Len(nonBooleanOfFile) > 0

FinishFile ==
  /\ pc = "rules"
  /\ entryIdx > Len(CurrentEntries)
  /\ findings' = IF EmitsFinding(risky, nonBoolean)
                 THEN Append(findings, [file |-> settingsFiles[fileIdx],
                                        riskyPatterns |-> risky,
                                        nonBoolean |-> nonBoolean])
                 ELSE findings
  /\ fileIdx' = fileIdx + 1
  /\ pc' = "file"
  /\ UNCHANGED <<opts, fs, settingsFiles, entryIdx, risky, nonBoolean, prefixHealth,
                 output, exitCode, cls>>

\* ------------------------------------------------------------------------
\* Reporting
\* ------------------------------------------------------------------------

NoDoc == [findings |-> <<>>, prefixes |-> <<>>, prefixHealth |-> <<>>]

\* One console.log call.
Line(kind, file, text, nums) ==
  [kind |-> kind, file |-> file, text |-> text, nums |-> nums, doc |-> NoDoc]

\* The percentage cut off instead of rounded
riskPercentage_Truncated(h) ==
  IF h.totalPatterns > 0
  THEN (100 * h.riskyPatterns) \div h.totalPatterns
  ELSE 0

\* Math.round((riskyPatterns / totalPatterns) * 100), or 0 without patterns
riskPercentage(h) ==
  IF h.totalPatterns > 0
  THEN (200 * h.riskyPatterns + h.totalPatterns) \div (2 * h.totalPatterns)
  ELSE 0

\* The status marker of a prefix.
status(h) ==
  IF h.riskyPatterns = 0 THEN "healthy"
  ELSE IF h.safePatterns = 0 THEN "critical"
  ELSE "mixed"

\* healthArray.sort((a, b) => b.totalPatterns - a.totalPatterns), stable
RECURSIVE SortByTotal(_)
SortByTotal(hs) ==
  IF Len(hs) <= 1 THEN hs
  ELSE LET sorted == SortByTotal(SubSeq(hs, 1, Len(hs) - 1))
           h == hs[Len(hs)]
           before == SelectSeq(sorted, LAMBDA g : g.totalPatterns >= h.totalPatterns)
           after == SelectSeq(sorted, LAMBDA g : g.totalPatterns < h.totalPatterns)
       IN before \o <<h>> \o after

\* The lines of one prefix in the health report.
HealthLines(h) ==
  <<[Line("health", "", h.prefix,
          <<h.safePatterns, h.totalPatterns, riskPercentage(h)>>)
       EXCEPT !.doc = [NoDoc EXCEPT !.prefixes = <<status(h)>>]]>>
  \o (IF h.riskyPatterns > 0
      THEN <<[Line("health-risky", "", <<>>,
                   <<IF Len(h.riskyList) > 3 THEN 1 ELSE 0>>)
                EXCEPT !.doc = [NoDoc EXCEPT
                                  !.prefixes = SubSeq(h.riskyList, 1,
                                    IF Len(h.riskyList) > 3 THEN 3
                                    ELSE Len(h.riskyList))]]>>
      ELSE <<>>)

RECURSIVE AllHealthLines(_)
AllHealthLines(hs) ==
  IF Len(hs) = 0 THEN <<>>
  ELSE HealthLines(hs[1]) \o AllHealthLines(Tail(hs))

\* The health report written in JSON mode too
reportPrefixHealth_IgnoreJson(health, json) ==
  <<Line("health-title", "", <<>>, <<>>), Line("health-rule", "", <<>>, <<>>)>>
  \o AllHealthLines(SortByTotal(health))
  \o <<Line("blank", "", <<>>, <<>>)>>

reportPrefixHealth(health, json) ==
  IF json THEN <<>>
  ELSE <<Line("health-title", "", <<>>, <<>>), Line("health-rule", "", <<>>, <<>>)>>
       \o AllHealthLines(SortByTotal(health))
       \o <<Line("blank", "", <<>>, <<>>)>>

\* The lines of one Finding in the warning.
FindingLines(f) ==
  <<Line("file", f.file, <<>>, <<>>)>>
  \o [n \in 1..Len(f.riskyPatterns) |-> Line("risky", f.file, f.riskyPatterns[n], <<>>)]

RECURSIVE AllFindingLines(_)
AllFindingLines(found) ==
  IF Len(found) = 0 THEN <<>>
  ELSE FindingLines(found[1]) \o AllFindingLines(Tail(found))

\* Line 348: is the prefix health reported.
ReportsHealth(o) ==
  o.scanPrefixes \/ o.allowPrefix = Undefined \/ Len(o.allowPrefix) = 0

\* silent suppresses the warning also when failing
shouldShowWarnings_SilentWins(o) == ~o.silent

\* The warning shown whatever the options
shouldShowWarnings_Always(o) == TRUE

\* Line 367
shouldShowWarnings(o) == ~o.silent \/ o.failOnRisk

\* Lines 352-379: the JSON document, the success message or the warning.
MainReport(o, found, prefixes, health) ==
  IF o.json
  THEN <<[Line("json", "", <<>>, <<>>)
            EXCEPT !.doc = [findings |-> found, prefixes |-> prefixes,
                            prefixHealth |-> health]]>>
  ELSE IF Len(found) = 0
  THEN IF ~o.silent
       THEN <<[Line("success", "", <<>>, <<>>)
                 EXCEPT !.doc = [NoDoc EXCEPT !.prefixes = prefixes]]>>
       ELSE <<>>
  ELSE IF shouldShowWarnings(o)
       THEN <<Line("issues", "", <<>>, <<Len(found)>>)>>
            \o AllFindingLines(found)
            \o (IF Len(prefixes) > 0
                THEN <<[Line("expected", "", <<>>, <<>>)
                          EXCEPT !.doc = [NoDoc EXCEPT !.prefixes = prefixes]]>>
                ELSE <<>>)
       ELSE <<>>

\* Lines 347-379: every file has been audited; the report is written.
Report ==
  /\ pc = "file"
  /\ AllFilesDone(fileIdx, settingsFiles)
  /\ output' = output
               \o (IF ReportsHealth(opts)
                   THEN reportPrefixHealth(prefixHealth, opts.json) ELSE <<>>)
               \o MainReport(opts, findings, explicitPrefixes, prefixHealth)
  /\ pc' = "exit"
  /\ UNCHANGED <<opts, fs, settingsFiles, fileIdx, entryIdx, risky, nonBoolean,
                 findings, prefixHealth, exitCode, cls>>

\* exit(1) on any Finding
ShouldExit_AnyFinding(found, failOnRisk) == Len(found) > 0

\* Line 380: is exit(1) called.
ShouldExit(found, failOnRisk) == Len(found) > 0 /\ failOnRisk

ExitOnRisk ==
  /\ pc = "exit"
  /\ ShouldExit(findings, opts.failOnRisk)
  /\ exitCode' = 1
  /\ pc' = "done"
  /\ UNCHANGED <<opts, fs, settingsFiles, fileIdx, entryIdx, risky, nonBoolean,
                 findings, prefixHealth, output, cls>>

\* The function returns and the process ends with code 0.
Return ==
  /\ pc = "exit"
  /\ ~ShouldExit(findings, opts.failOnRisk)
  /\ exitCode' = 0
  /\ pc' = "done"
  /\ UNCHANGED <<opts, fs, settingsFiles, fileIdx, entryIdx, risky, nonBoolean,
                 findings, prefixHealth, output, cls>>


\* ------------------------------------------------------------------------
\* The classifier on its own: one pattern and one --allow-prefix value
\* ------------------------------------------------------------------------

\* The most white space between rm and -rf.
MaxSpaces == 2

\* n spaces
RECURSIVE Spaces(_)
Spaces(n) == IF n = 0 THEN <<>> ELSE <<" ">> \o Spaces(n - 1)

\* What precedes the command in a rule pattern.
Heads == {<<>>, <<":", "t", "a", "c", "h", "y", "o", "n", "-">>, <<":", "b", "a", "d", ":">>, <<":", "a", ".", "b", "-">>, <<":", "b", "u", "i", "l", "d", "-">>, <<"/">>, <<"~", "/">>}

\* The recursive force deletes.
RmRfCommands ==
  {<<"r", "m">> \o Spaces(n) \o <<"-", "r", "f", " ">> : n \in 1..MaxSpaces} \cup {<<"r", "m", "\t">> \o <<"-", "r", "f", " ">>}

Commands == RmRfCommands \cup {<<>>, <<"r", "m", " ", "-", "r", " ">>, <<"r", "m", "-", "r", "f", " ">>}

\* The build artifacts SAFE_RM_TARGETS names.
SafeNames ==
  {<<"n", "o", "d", "e", "_", "m", "o", "d", "u", "l", "e", "s">>, <<"b", "u", "i", "l", "d">>, <<"d", "i", "s", "t">>, <<".", "n", "e", "x", "t">>, <<"o", "u", "t">>, <<".", "c", "a", "c", "h", "e">>, <<".", "t", "m", "p">>, <<"t", "e", "m", "p">>, <<"t", "m", "p">>}

AbsolutePaths == {<<"/">>, <<"/", "t", "m", "p">>, <<"/", "e", "t", "c">>, <<"/", "v", "a", "r", "/", "b", "u", "i", "l", "d">>}

Arguments ==
  SafeNames \cup AbsolutePaths
  \cup {<<>>, <<"s", "r", "c">>, <<"x", "n", "e", "x", "t">>, <<"*">>, <<"b", "u", "i", "l", "d", "/", "*">>, <<".", ".", "/", "t", "m", "p">>, <<"~", "/", "t", "m", "p">>}

\* What follows the argument.
Tails == {<<>>, <<"'">>, <<"\\", "'">>, <<" ", "\\", "'", " ", "'">>, <<" ", "'", "a", "'">>, <<" ", "'", "(", "'">>, <<" ", "(">>, <<" ", "&">>}

ClassifierPatterns ==
  {h \o c \o a \o t : h \in Heads, c \in Commands, a \in Arguments, t \in Tails}

ClassifierAllowPrefixes == {Undefined, <<"t", "a", "c", "h", "y", "o", "n">>, <<" ", "s", "a", "f", "e", " ", ",", " ", "a", ".", "b">>}

InitClassify ==
  /\ cls \in [phase : {"input"}, pattern : ClassifierPatterns,
              allowPrefix : ClassifierAllowPrefixes]
  /\ opts = [allowPrefix |-> Undefined, settingsFile |-> "undefined",
             failOnRisk |-> FALSE, json |-> FALSE, silent |-> FALSE,
             scanPrefixes |-> FALSE]
  /\ fs = [userReadable |-> FALSE, walk |-> <<>>]
  /\ pc = "idle"
  /\ settingsFiles = <<>>
  /\ fileIdx = 1
  /\ entryIdx = 1
  /\ risky = <<>>
  /\ nonBoolean = <<>>
  /\ findings = <<>>
  /\ prefixHealth = <<>>
  /\ output = <<>>
  /\ exitCode = -1

\* Lines 311-329 on the input: the four checks and the verdict.
Classify ==
  /\ cls.phase = "input"
  /\ LET prefixes == ExplicitPrefixes(cls.allowPrefix)
     IN cls' = [phase |-> "done",
                pattern |-> cls.pattern,
                allowPrefix |-> cls.allowPrefix,
                prefixes |-> prefixes,
                syntax |-> validatePatternSyntax(cls.pattern),
                taxonomy |-> SomeTest(RISKY_PATTERNS, cls.pattern),
                dangerousRm |-> isDangerousRmRf(cls.pattern),
                matchesTemplate |-> SomeTest(buildSafeTemplate(prefixes), cls.pattern),
                prefix |-> ExtractPrefix(cls.pattern),
                risky |-> isRisky(cls.pattern, prefixes)]
  /\ UNCHANGED auditVars

NextClassify == Classify

SpecClassify == InitClassify /\ [][NextClassify]_vars

Next ==
  \/ Begin
  \/ SkipFile
  \/ OpenFile
  \/ NonBooleanEntry
  \/ BooleanEntry
  \/ FinishFile
  \/ Report
  \/ ExitOnRisk
  \/ Return

Spec == Init /\ [][Next]_vars

\* The run is one synchronous call: a step that can be taken is taken.
SpecLive == Spec /\ WF_vars(Next)

\* ------------------------------------------------------------------------
\* The command line: osa copilot audit-auto-approve
\* ------------------------------------------------------------------------

\* The default of .option("--fail-on-risk", ..., true)
FailOnRiskDefault == TRUE

\* The command lines: the value of --allow-prefix and --settings-file when
\* given, and whether each flag is given.
CommandLines ==
  [allowPrefix : AllowPrefixes, settingsFile : ExplicitFiles \cup {"undefined"},
   failOnRisk : BOOLEAN, json : BOOLEAN, scanPrefixes : BOOLEAN, silent : BOOLEAN]

\* The options the action of the command passes to auditAutoApprove: a flag
\* that is given is true, a flag that is not has its default.
ParseCommandLine(argv) ==
  [allowPrefix |-> argv.allowPrefix,
   settingsFile |-> argv.settingsFile,
   failOnRisk |-> IF argv.failOnRisk THEN TRUE ELSE FailOnRiskDefault,
   json |-> IF argv.json THEN TRUE ELSE FALSE,
   scanPrefixes |-> IF argv.scanPrefixes THEN TRUE ELSE FALSE,
   silent |-> IF argv.silent THEN TRUE ELSE FALSE,
   argv |-> argv]

InitCli ==
  /\ \E argv \in CommandLines : opts = ParseCommandLine(argv)
  /\ fs \in [userReadable : BOOLEAN,
             walk : Walks(IF opts.settingsFile = "undefined"
                          THEN WalkFiles ELSE WalkFilesBehindExplicit, MaxFiles)]
  /\ pc = "start"
  /\ settingsFiles = <<>>
  /\ fileIdx = 1
  /\ entryIdx = 1
  /\ risky = <<>>
  /\ nonBoolean = <<>>
  /\ findings = <<>>
  /\ prefixHealth = <<>>
  /\ output = <<>>
  /\ exitCode = -1
  /\ cls = ClsIdle

\* The audit run from the command line.
SpecCli == InitCli /\ [][Next]_vars

\* ------------------------------------------------------------------------
\* Properties
\* ------------------------------------------------------------------------

\* The entries of the rule maps iterated so far, in order.
RECURSIVE EntriesOfFiles(_)
EntriesOfFiles(files) ==
  IF Len(files) = 0 THEN <<>>
  ELSE (IF HasRuleMap(files[1]) THEN Content[files[1]].entries ELSE <<>>)
       \o EntriesOfFiles(Tail(files))

ProcessedEntries ==
  EntriesOfFiles(SubSeq(settingsFiles, 1, fileIdx - 1))
  \o (IF pc = "rules" THEN SubSeq(CurrentEntries, 1, entryIdx - 1) ELSE <<>>)

\* The rules tallied as risky or safe over all prefixes.
RECURSIVE TalliedRules(_)
TalliedRules(health) ==
  IF Len(health) = 0 THEN 0
  ELSE health[1].riskyPatterns + health[1].safePatterns + TalliedRules(Tail(health))

\* The findings of a file.
FindingsOf(file) == SelectSeq(findings, LAMBDA f : f.file = file)

\* C1: the verdict of an evaluated rule is risky exactly when the syntax is
\* invalid, the taxonomy matches, the removal is dangerous, or a non-empty
\* allow-list is given and the pattern is outside the allow template, in
\* whatever order the four checks are taken.
C1_VerdictIsDisjunction ==
  cls.phase = "done" =>
    /\ cls.risky <=> \/ Len(cls.prefixes) > 0 /\ ~cls.matchesTemplate
                     \/ cls.dangerousRm
                     \/ cls.taxonomy
                     \/ ~cls.syntax.valid
    /\ cls.risky <=> \/ ~cls.syntax.valid
                     \/ cls.taxonomy
                     \/ cls.dangerousRm
                     \/ Len(cls.prefixes) > 0 /\ ~cls.matchesTemplate

\* A rule that is risky by the allow-list alone has been classified.
C1_Witness ==
  /\ cls.phase = "done"
  /\ cls.risky
  /\ cls.syntax.valid
  /\ ~cls.taxonomy
  /\ ~cls.dangerousRm
  /\ Len(cls.prefixes) > 0
  /\ ~cls.matchesTemplate

\* C2: a rule whose value is false is in no riskyPatterns of its file and in
\* no risky or safe tally: the tallies count the rules whose value is true.
C2_DisabledRulesNotEvaluated ==
  /\ \A n \in 1..Len(findings) :
       \A e \in Range(Content[findings[n].file].entries) :
         e.val = "false" => e.pattern \notin Range(findings[n].riskyPatterns)
  /\ TalliedRules(prefixHealth)
       = Len(SelectSeq(ProcessedEntries, LAMBDA e : e.val = "true"))

\* C3: risky and safe add up to the total and patterns has the total's length
\* in every entry of prefixHealth.
C3_HealthTotals ==
  \A n \in 1..Len(prefixHealth) :
    /\ prefixHealth[n].riskyPatterns + prefixHealth[n].safePatterns
         = prefixHealth[n].totalPatterns
    /\ Len(prefixHealth[n].patterns) = prefixHealth[n].totalPatterns

\* A prefix has both a risky and a safe rule.
C3_Witness ==
  \E n \in 1..Len(prefixHealth) :
    prefixHealth[n].riskyPatterns > 0 /\ prefixHealth[n].safePatterns > 0

\* Does the file hold a non-boolean entry or a rule the classifier finds risky.
HasRiskyOrNonBoolean(file) ==
  /\ HasRuleMap(file)
  /\ \E e \in Range(Content[file].entries) :
       \/ ~TypeofBoolean(e.val)
       \/ TypeofBoolean(e.val) /\ VerdictOf[opts.allowPrefix][e.pattern]

C5_ExitCode ==
  /\ pc = "done" =>
       /\ exitCode = 1 <=> (Len(findings) > 0 /\ opts.failOnRisk)
       /\ exitCode = 0 <=> ~(Len(findings) > 0 /\ opts.failOnRisk)
  /\ pc # "done" => exitCode = -1

\* A silent JSON run with scanPrefixes has failed on its findings.
C5_Witness ==
  /\ pc = "done"
  /\ exitCode = 1
  /\ opts.json /\ opts.silent /\ opts.scanPrefixes

\* Are the warning lines in the output: the issues header, the line of each
\* Finding and a line for each of its risky entries.
WarningShown ==
  /\ \E i \in 1..Len(output) :
       output[i].kind = "issues" /\ output[i].nums = <<Len(findings)>>
  /\ \A n \in 1..Len(findings) :
       /\ \E i \in 1..Len(output) :
            output[i].kind = "file" /\ output[i].file = findings[n].file
       /\ \A m \in 1..Len(findings[n].riskyPatterns) :
            \E i \in 1..Len(output) :
              /\ output[i].kind = "risky"
              /\ output[i].file = findings[n].file
              /\ output[i].text = findings[n].riskyPatterns[m]

\* C6 as stated: with failOnRisk and a Finding the warning lines are written
\* and exit code 1 is signalled, whatever silent is.
C6_WarningsWhenFailing ==
  (pc = "done" /\ opts.failOnRisk /\ Len(findings) > 0) =>
    WarningShown /\ exitCode = 1

\* C6: in text output (json not set), with failOnRisk and a Finding the
\* warning lines are written and exit code 1 is signalled, whatever silent is.
C6_WarningsWhenFailingInText ==
  (pc = "done" /\ opts.failOnRisk /\ Len(findings) > 0 /\ ~opts.json) =>
    WarningShown /\ exitCode = 1

\* A silent text run has failed on a Finding with a risky entry.
C6_Witness ==
  /\ pc = "done"
  /\ opts.failOnRisk /\ opts.silent /\ ~opts.json
  /\ Len(findings) > 0
  /\ Len(findings[1].riskyPatterns) > 0
  /\ exitCode = 1

\* Are the characters of s in p from position i on.
Occurs(p, i, s) ==
  /\ i >= 1
  /\ i + Len(s) - 1 <= Len(p)
  /\ \A k \in 1..Len(s) : p[i + k - 1] = s[k]

\* Does p hold rm, white space and -rf from position i on, -rf ending before m.
RmRfAt(p, i, m) ==
  \E j \in (i + 3)..Len(p) :
    /\ Occurs(p, i, <<"r", "m">>)
    /\ \A h \in (i + 2)..(j - 1) : p[h] \in WhiteSpace
    /\ Occurs(p, j, <<"-", "r", "f">>)
    /\ m = j + 3

\* Does p hold rm -rf followed by white space and path.
DeletesPath(p, path) ==
  \E i, m, a \in 1..Len(p) :
    /\ RmRfAt(p, i, m)
    /\ m < a
    /\ \A h \in m..(a - 1) : p[h] \in WhiteSpace
    /\ Occurs(p, a, path)

\* C7: a pattern holding rm -rf of an absolute path is a dangerous removal.
C7_AbsolutePathIsDangerous ==
  (cls.phase = "done" /\ \E path \in AbsolutePaths : DeletesPath(cls.pattern, path))
    => cls.dangerousRm

\* Does p hold rm, white space and -rf.
HoldsRmRf(p) == \E i \in 1..Len(p), m \in 1..(Len(p) + 1) : RmRfAt(p, i, m)

\* The rule prefixes without wildcard, parent, absolute or home component.
PlainHeads == {<<>>, <<":", "t", "a", "c", "h", "y", "o", "n", "-">>, <<":", "b", "a", "d", ":">>, <<":", "a", ".", "b", "-">>}

\* C8: rm -rf of just a safe build-artifact name is not a dangerous removal,
\* and neither is a pattern without rm -rf.
C8_SafeTargetNotDangerous ==
  cls.phase = "done" =>
    /\ (\E h \in PlainHeads, c \in RmRfCommands, name \in SafeNames :
          cls.pattern = h \o c \o name) => ~cls.dangerousRm
    /\ ~HoldsRmRf(cls.pattern) => ~cls.dangerousRm

\* rm -rf node_modules has been classified.
C8_Witness ==
  /\ cls.phase = "done"
  /\ cls.pattern = <<"r", "m", " ", "-", "r", "f", " ", "n", "o", "d", "e", "_", "m", "o", "d", "u", "l", "e", "s">>
  /\ ~cls.dangerousRm

\* The single quotes of p that no backslash precedes.
UnescapedSingleQuotes(p) ==
  Cardinality({i \in 1..Len(p) : p[i] = "'" /\ (i = 1 \/ p[i - 1] # "\\")})

\* C9: a pattern with an odd number of unescaped single quotes is invalid and
\* has the issue of unterminated single quotes.
C9_OddUnescapedQuotesInvalid ==
  (cls.phase = "done" /\ UnescapedSingleQuotes(cls.pattern) % 2 = 1) =>
    /\ ~cls.syntax.valid
    /\ <<"u", "n", "t", "e", "r", "m", "i", "n", "a", "t", "e", "d", " ", "s", "i", "n", "g", "l", "e", " ", "q", "u", "o", "t", "e", "s">> \in Range(cls.syntax.issues)

\* Has p the form :prefix-identifier, :prefix-identifier:identifier or :clean.
HasAllowedForm(p, prefixes) ==
  \/ p = <<":", "c", "l", "e", "a", "n">>
  \/ \E n \in 1..Len(prefixes) :
       LET head == <<":">> \o prefixes[n] \o <<"-">>
           rest == SubSeq(p, Len(head) + 1, Len(p))
           colons == {i \in 1..Len(rest) : rest[i] = ":"}
       IN /\ Len(p) > Len(head)
          /\ SubSeq(p, 1, Len(head)) = head
          /\ \A i \in 1..Len(rest) : rest[i] \in IdentChars \cup {":"}
          /\ Cardinality(colons) <= 1
          /\ 1 \notin colons
          /\ Len(rest) \notin colons

\* The rules with value true iterated so far.
EnabledProcessed == SelectSeq(ProcessedEntries, LAMBDA e : e.val = "true")

\* The risky patterns recorded so far, of the finished and the current file.
RecordedRisky ==
  UNION {Range(findings[n].riskyPatterns) : n \in 1..Len(findings)}
  \cup (IF pc = "rules" THEN Range(risky) ELSE {})

LeadingToken(p) ==
  LET stops == {j \in 3..Len(p) :
                  /\ p[1] = ":"
                  /\ p[j] \in {"-", ":"}
                  /\ \A h \in 2..(j - 1) : p[h] \in IdentChars \ {"-"}}
  IN IF stops = {} THEN <<"u", "n", "k", "n", "o", "w", "n">>
     ELSE SubSeq(p, 2, (CHOOSE j \in stops : TRUE) - 1)

\* The rules with a boolean value iterated so far.
BooleanProcessed == SelectSeq(ProcessedEntries, LAMBDA e : e.val \in {"true", "false"})

\* C11: a rule is grouped under the identifier between its leading colon and
\* the first hyphen or separator after it, or under unknown; so :bad:rm -rf /
\* and :bad:rm -rf * alone, without allow-prefix and with scan-prefixes, give
\* the prefix bad 0 safe of 2.
C11_PrefixGrouping ==
  /\ \A n \in 1..Len(BooleanProcessed) :
       \E m \in 1..Len(prefixHealth) :
         /\ prefixHealth[m].prefix = LeadingToken(BooleanProcessed[n].pattern)
         /\ BooleanProcessed[n].pattern \in Range(prefixHealth[m].patterns)
  /\ (/\ pc = "done"
      /\ settingsFiles = <<"scenarioD">>
      /\ opts.allowPrefix = Undefined
      /\ opts.scanPrefixes) =>
       \E m \in 1..Len(prefixHealth) :
         /\ prefixHealth[m].prefix = <<"b", "a", "d">>
         /\ prefixHealth[m].safePatterns = 0
         /\ prefixHealth[m].totalPatterns = 2

\* The patterns of the entries with a non-boolean value, in order.
NonBooleanPatterns(entries) ==
  LET picked == SelectSeq(entries, LAMBDA e : e.val \notin {"true", "false"})
  IN [n \in 1..Len(picked) |-> picked[n].pattern]

\* The rules counted over all prefixes.
RECURSIVE TotalRules(_)
TotalRules(health) ==
  IF Len(health) = 0 THEN 0
  ELSE health[1].totalPatterns + TotalRules(Tail(health))

\* nonBoolean holds the non-boolean entries in order, none of them is a risky
\* pattern, and the prefixes count the boolean entries only.
NonBooleanSetAside ==
  /\ pc = "rules" =>
       /\ nonBoolean = NonBooleanPatterns(SubSeq(CurrentEntries, 1, entryIdx - 1))
       /\ Range(nonBoolean) \cap Range(risky) = {}
  /\ \A n \in 1..Len(findings) :
       /\ findings[n].nonBoolean = NonBooleanPatterns(Content[findings[n].file].entries)
       /\ Range(findings[n].nonBoolean) \cap Range(findings[n].riskyPatterns) = {}
  /\ TotalRules(prefixHealth) = Len(BooleanProcessed)
  /\ \A m \in 1..Len(prefixHealth) :
       Range(prefixHealth[m].patterns)
         \subseteq {BooleanProcessed[n].pattern : n \in 1..Len(BooleanProcessed)}

\* The step over a non-boolean entry appends it to nonBoolean and leaves the
\* risky list and the prefixes alone.
NonBooleanStep ==
  (/\ pc = "rules"
   /\ entryIdx <= Len(CurrentEntries)
   /\ CurrentEntries[entryIdx].val \notin {"true", "false"}) =>
    /\ nonBoolean' = Append(nonBoolean, CurrentEntries[entryIdx].pattern)
    /\ risky' = risky
    /\ prefixHealth' = prefixHealth
    /\ findings' = findings

\* C12: an entry whose value is not a boolean is appended to nonBoolean in
\* rule-map order, is not classified, is in no riskyPatterns, and leaves every
\* prefix entry as it was.
C12_NonBooleanSetAside == []NonBooleanSetAside /\ [][NonBooleanStep]_vars

\* A non-boolean entry has been set aside after a rule was tallied.
C12_Witness ==
  /\ pc = "rules"
  /\ Len(nonBoolean) > 0
  /\ Len(prefixHealth) > 0
  /\ entryIdx > Len(CurrentEntries)

\* Is the pattern in the output: in nonBoolean of a Finding of the JSON
\* document, or the text of a line.
InOutput(p) ==
  \E i \in 1..Len(output) :
    IF output[i].kind = "json"
    THEN \E n \in 1..Len(output[i].doc.findings) :
           p \in Range(output[i].doc.findings[n].nonBoolean)
    ELSE output[i].text = p

\* Has the run written its findings: the JSON document or the warning.
FindingsReported ==
  /\ pc \in {"exit", "done"}
  /\ opts.json \/ (Len(findings) > 0 /\ (~opts.silent \/ opts.failOnRisk))

\* C13: when the findings are reported, as JSON or as text, every non-boolean
\* entry of every audited file is in the report.
C13_NonBooleanReported ==
  FindingsReported =>
    \A e \in Range(ProcessedEntries) :
      e.val \notin {"true", "false"} => InOutput(e.pattern)

\* C14: with prefix safe allowed, the enabled rule :safe:task is safe, gives
\* no Finding and is a safe pattern of the prefix safe.
C14_ColonFormAllowed ==
  (/\ pc = "done"
   /\ settingsFiles = <<"safeTask">>
   /\ <<"s", "a", "f", "e">> \in Range(explicitPrefixes)) =>
    /\ findings = <<>>
    /\ \E m \in 1..Len(prefixHealth) :
         /\ prefixHealth[m].prefix = <<"s", "a", "f", "e">>
         /\ prefixHealth[m].safePatterns = 1
         /\ prefixHealth[m].patterns = <<<<":", "s", "a", "f", "e", ":", "t", "a", "s", "k">>>>

\* C15: with an explicit settings file the run audits that file alone: the
\* user file and the walk add no rule, no Finding and no prefix count.
C15_ExplicitFileOnly ==
  opts.settingsFile # "undefined" =>
    /\ pc # "start" => settingsFiles = <<opts.settingsFile>>
    /\ \A n \in 1..Len(findings) : findings[n].file = opts.settingsFile
    /\ \A m \in 1..Len(prefixHealth) :
         Range(prefixHealth[m].patterns)
           \subseteq {e.pattern : e \in Range(Content[opts.settingsFile].entries)}
    /\ TotalRules(prefixHealth) <= Len(Content[opts.settingsFile].entries)

\* Scenario A has been audited as the explicit file, with a readable user
\* file and a walk that would find scenario B.
C15_Witness ==
  /\ pc = "done"
  /\ opts.settingsFile = "scenarioA"
  /\ opts.allowPrefix = <<"t", "a", "c", "h", "y", "o", "n">>
  /\ fs.userReadable
  /\ fs.walk = <<"scenarioB">>
  /\ findings = <<>>
  /\ TotalRules(prefixHealth) = 2

\* The four checks on the inputs of the run, one by one, evaluated once.
ExpectedVerdict ==
  [a \in AllowPrefixes |->
    [p \in CatalogPatterns |->
      \/ ~validatePatternSyntax(p).valid
      \/ SomeTest(RISKY_PATTERNS, p)
      \/ isDangerousRmRf(p)
      \/ /\ Len(ExplicitPrefixes(a)) > 0
         /\ ~SomeTest(buildSafeTemplate(ExplicitPrefixes(a)), p)]]

\* Can the file not be read or not be parsed.
Unloadable(file) == Content[file].kind \in {"unreadable", "malformed"}

\* The entries a file contributes: those of a parsed object rule map.
ContributedEntries(file) ==
  IF Content[file].kind = "json" /\ Content[file].shape = "object"
  THEN Content[file].entries
  ELSE <<>>

\* The risky list the entries give under the allow-prefix a.
RECURSIVE ExpectedRisky(_, _)
ExpectedRisky(entries, a) ==
  IF Len(entries) = 0 THEN <<>>
  ELSE LET e == entries[1]
           syntax == SyntaxOf[e.pattern]
       IN (IF e.val \in {"true", "false"}
           THEN (IF syntax.valid THEN <<>>
                 ELSE <<<<"s", "y", "n", "t", "a", "x", " ", "i", "s", "s", "u", "e", "s", ":", " ">> \o Join(syntax.issues, <<",", " ">>)>>)
                \o (IF ExpectedVerdict[a][e.pattern] THEN <<e.pattern>> ELSE <<>>)
           ELSE <<>>)
          \o ExpectedRisky(Tail(entries), a)

\* The findings the files give under the allow-prefix a.
RECURSIVE ExpectedFindings(_, _)
ExpectedFindings(files, a) ==
  IF Len(files) = 0 THEN <<>>
  ELSE LET entries == ContributedEntries(files[1])
           r == ExpectedRisky(entries, a)
           nb == NonBooleanPatterns(entries)
       IN (IF Len(r) > 0 \/ Len(nb) > 0
           THEN <<[file |-> files[1], riskyPatterns |-> r, nonBoolean |-> nb]>>
           ELSE <<>>)
          \o ExpectedFindings(Tail(files), a)

\* The prefix counts the files give under a: per prefix, in order of first
\* appearance, the patterns and the risky ones among them.
RECURSIVE ContributedBooleans(_)
ContributedBooleans(files) ==
  IF Len(files) = 0 THEN <<>>
  ELSE SelectSeq(ContributedEntries(files[1]), LAMBDA e : e.val \in {"true", "false"})
       \o ContributedBooleans(Tail(files))

RECURSIVE FirstAppearances(_)
FirstAppearances(seq) ==
  IF Len(seq) = 0 THEN <<>>
  ELSE LET before == FirstAppearances(SubSeq(seq, 1, Len(seq) - 1))
       IN IF seq[Len(seq)] \in Range(before) THEN before
          ELSE Append(before, seq[Len(seq)])

ExpectedHealth(files, a) ==
  LET rules == ContributedBooleans(files)
      prefixes == FirstAppearances([n \in 1..Len(rules) |-> ExtractPrefix(rules[n].pattern)])
      Of(prefix) == SelectSeq(rules, LAMBDA e : ExtractPrefix(e.pattern) = prefix)
      RiskyIn(es) == SelectSeq(es, LAMBDA e : ExpectedVerdict[a][e.pattern])
      Patterns(es) == [n \in 1..Len(es) |-> es[n].pattern]
  IN [m \in 1..Len(prefixes) |->
       [prefix |-> prefixes[m],
        totalPatterns |-> Len(Of(prefixes[m])),
        riskyPatterns |-> Len(RiskyIn(Of(prefixes[m]))),
        safePatterns |-> Len(Of(prefixes[m])) - Len(RiskyIn(Of(prefixes[m]))),
        patterns |-> Patterns(Of(prefixes[m])),
        riskyList |-> Patterns(RiskyIn(Of(prefixes[m])))]]

\* The files of the run that can be read and parsed.
LoadableFiles == SelectSeq(settingsFiles, LAMBDA f : ~Unloadable(f))

\* No rule of an unloadable file is iterated, no Finding is of such a file,
\* and the run ends with the results of the loadable files alone.
UnloadableLeftOut ==
  /\ pc = "rules" => ~Unloadable(settingsFiles[fileIdx])
  /\ \A n \in 1..Len(findings) : ~Unloadable(findings[n].file)
  /\ pc \in {"exit", "done"} =>
       /\ findings = ExpectedFindings(LoadableFiles, opts.allowPrefix)
       /\ prefixHealth = ExpectedHealth(LoadableFiles, opts.allowPrefix)

\* The step at an unloadable file moves to the next file and changes neither
\* the findings nor the prefixes; no step moves back to a file.
UnloadableStep ==
  /\ (/\ pc = "file"
      /\ fileIdx <= Len(settingsFiles)
      /\ Unloadable(settingsFiles[fileIdx])) =>
       /\ fileIdx' = fileIdx + 1
       /\ pc' = "file"
       /\ findings' = findings
       /\ prefixHealth' = prefixHealth
  /\ fileIdx' >= fileIdx

\* C16: a file that cannot be read or parsed is skipped: no Finding, no
\* change of a prefix entry, no retry, and the other files give what they
\* give without it.
C16_UnloadableSkipped == []UnloadableLeftOut /\ [][UnloadableStep]_vars

\* A run over the malformed file and scenario B has ended with one Finding.
C16_Witness ==
  /\ pc = "done"
  /\ settingsFiles = <<"malformed", "scenarioB">>
  /\ opts.allowPrefix = <<"t", "a", "c", "h", "y", "o", "n">>
  /\ Len(findings) = 1
  /\ findings[1].file = "scenarioB"

\* The index of the file among the files of the run.
PositionOf(file) == CHOOSE k \in 1..Len(settingsFiles) : settingsFiles[k] = file

\* The findings are of distinct files of the run, in the order of the files,
\* which is the user file when readable and then the walk.
FindingsInFileOrder ==
  /\ \A n \in 1..Len(findings) :
       /\ findings[n].file \in Range(settingsFiles)
       /\ PositionOf(findings[n].file) <= fileIdx
  /\ \A n, m \in 1..Len(findings) :
       n < m => PositionOf(findings[n].file) < PositionOf(findings[m].file)
  /\ (pc # "start" /\ opts.settingsFile = "undefined") =>
       /\ settingsFiles
            = (IF fs.userReadable THEN <<userSettingsPath>> ELSE <<>>) \o fs.walk
       /\ \A k \in 1..Len(settingsFiles) :
            settingsFiles[k] = userSettingsPath => k = 1

\* A step keeps the findings there are and at most appends one.
FindingsOnlyAppended ==
  /\ Len(findings') \in {Len(findings), Len(findings) + 1}
  /\ SubSeq(findings', 1, Len(findings)) = findings

\* C17: at most one Finding per file, in the order the files are met (the
\* user file first when readable, then the walk), and a Finding is never
\* changed or removed once appended.
C17_FindingsOrdered == []FindingsInFileOrder /\ [][FindingsOnlyAppended]_vars

\* The user file and a file of the walk each have their Finding, in order.
C17_Witness ==
  /\ pc = "done"
  /\ Len(findings) = 2
  /\ findings[1].file = userSettingsPath
  /\ findings[2].file = fs.walk[Len(fs.walk)]

\* C18: in JSON mode the output is one JSON document with the findings, the
\* resolved prefixes and the whole prefixHealth, and no line of text.
C18_JsonOnly ==
  /\ opts.json /\ pc \in {"exit", "done"} =>
       /\ Len(output) = 1
       /\ output[1].kind = "json"
       /\ output[1].doc = [findings |-> findings, prefixes |-> explicitPrefixes,
                           prefixHealth |-> prefixHealth]
  /\ opts.json => \A i \in 1..Len(output) : output[i].kind = "json"

\* A JSON run with scan-prefixes, not silent, has reported findings.
C18_Witness ==
  /\ pc = "done"
  /\ opts.json /\ opts.scanPrefixes /\ ~opts.silent
  /\ opts.allowPrefix = Undefined
  /\ Len(findings) > 0
  /\ Len(prefixHealth) > 0
  /\ Len(output) = 1

\* C19 as stated: a silent text run without failOnRisk writes nothing.
C19_SilentWritesNothing ==
  (pc \in {"exit", "done"} /\ opts.silent /\ ~opts.json /\ ~opts.failOnRisk) =>
    output = <<>>

\* C19: a silent text run without failOnRisk and without scan-prefixes, given
\* a non-empty allow-prefix, writes nothing, with or without findings.
C19_SilentWritesNothingWithoutHealth ==
  (/\ pc \in {"exit", "done"}
   /\ opts.silent /\ ~opts.json /\ ~opts.failOnRisk
   /\ ~opts.scanPrefixes
   /\ opts.allowPrefix # Undefined /\ Len(opts.allowPrefix) > 0) =>
    output = <<>>

\* Such a run has ended with a Finding and no output.
C19_Witness ==
  /\ pc = "done"
  /\ opts.silent /\ ~opts.json /\ ~opts.failOnRisk /\ ~opts.scanPrefixes
  /\ opts.allowPrefix = <<"t", "a", "c", "h", "y", "o", "n">>
  /\ Len(findings) > 0
  /\ output = <<>>

\* How often p is in seq.
Occurrences(seq, p) == Cardinality({i \in 1..Len(seq) : seq[i] = p})

\* C20: the verdict of a rule is that of the classifier on its pattern and the
\* allow-list alone: every occurrence of a pattern in the run, in whatever
\* file and after whatever rules, is risky exactly when the four checks say
\* so.
C20_VerdictWithoutHistory ==
  \A m \in 1..Len(prefixHealth) :
    \A p \in Range(prefixHealth[m].patterns) :
      Occurrences(prefixHealth[m].riskyList, p)
        = IF ExpectedVerdict[opts.allowPrefix][p]
          THEN Occurrences(prefixHealth[m].patterns, p)
          ELSE 0

\* A pattern has been classified in two files of a run with a Finding between.
C20_Witness ==
  /\ pc = "done"
  /\ Len(findings) > 0
  /\ \E m \in 1..Len(prefixHealth) :
       \E p \in Range(prefixHealth[m].patterns) :
         /\ Occurrences(prefixHealth[m].patterns, p) = 2
         /\ Occurrences(prefixHealth[m].riskyList, p) = 0

\* The health lines of the output.
HealthLinesShown == {i \in 1..Len(output) : output[i].kind = "health"}

\* The prefix entry a health line is about.
EntryOf(line) ==
  CHOOSE h \in Range(prefixHealth) : h.prefix = line.text

\* C21: a health line shows round(risky / total * 100), between 0 and 100,
\* and the marker healthy exactly without risky patterns, critical exactly
\* with risky and without safe patterns, mixed otherwise; healthy shows 0%
\* and critical 100%.
C21_PercentageAndStatus ==
  \A i \in HealthLinesShown :
    LET h == EntryOf(output[i])
        shown == output[i].nums[3]
        marker == output[i].doc.prefixes[1]
    IN /\ shown \in 0..100
       /\ 2 * shown * h.totalPatterns - h.totalPatterns <= 200 * h.riskyPatterns
       /\ 200 * h.riskyPatterns < 2 * shown * h.totalPatterns + h.totalPatterns
       /\ marker \in {"healthy", "critical", "mixed"}
       /\ marker = "healthy" <=> h.riskyPatterns = 0
       /\ marker = "critical" <=> (h.riskyPatterns > 0 /\ h.safePatterns = 0)
       /\ marker = "healthy" => shown = 0
       /\ marker = "critical" => shown = 100

\* A report shows a mixed prefix with two of three patterns risky, at 67%.
C21_Witness ==
  \E i \in HealthLinesShown :
    /\ output[i].doc.prefixes[1] = "mixed"
    /\ output[i].nums = <<1, 3, 67>>

\* Is the prefix-health report in the output.
HealthReportShown == \E i \in 1..Len(output) : output[i].kind = "health-title"

\* Is the pattern risky by syntax, taxonomy or removal, the template left out.
RiskyWithoutTemplate(p) ==
  \/ ~SyntaxOf[p].valid
  \/ ExpectedVerdict[Undefined][p]

\* C22: without explicit prefixes in effect (allow-prefix omitted, empty or
\* resolving to an empty list) no rule is risky by the allow template, and a
\* text run ends with the prefix-health report, scan-prefixes or not.
C22_NoPrefixesReportsHealth ==
  explicitPrefixes = <<>> =>
    /\ \A m \in 1..Len(prefixHealth) :
         \A p \in Range(prefixHealth[m].riskyList) : RiskyWithoutTemplate(p)
    /\ (pc \in {"exit", "done"} /\ ~opts.json) => HealthReportShown

\* Is the entry of a risky list a syntax label.
IsSyntaxLabel(s) == Occurs(s, 1, <<"s", "y", "n", "t", "a", "x", " ", "i", "s", "s", "u", "e", "s", ":", " ">>)

\* The boolean rules of the file the classifier finds risky, in rule-map order.
RiskyRulesInOrder(file, a) ==
  LET es == SelectSeq(Content[file].entries,
                      LAMBDA e : e.val \in {"true", "false"}
                                 /\ ExpectedVerdict[a][e.pattern])
  IN [n \in 1..Len(es) |-> es[n].pattern]

\* A risky list labels its invalid rules: a label is followed at once by the
\* invalid pattern it is about and names all its issues, an invalid pattern
\* is preceded by its label, and the patterns are in rule-map order.
LabelsInPlace(file, list) ==
  /\ \A i \in 1..Len(list) :
       IF IsSyntaxLabel(list[i])
       THEN /\ i < Len(list)
            /\ ~IsSyntaxLabel(list[i + 1])
            /\ ~validatePatternSyntax(list[i + 1]).valid
            /\ list[i] = <<"s", "y", "n", "t", "a", "x", " ", "i", "s", "s", "u", "e", "s", ":", " ">>
                           \o Join(validatePatternSyntax(list[i + 1]).issues, <<",", " ">>)
       ELSE ~SyntaxOf[list[i]].valid => (i > 1 /\ IsSyntaxLabel(list[i - 1]))
  /\ SelectSeq(list, LAMBDA s : ~IsSyntaxLabel(s))
       = RiskyRulesInOrder(file, opts.allowPrefix)

\* The rule with two issues carries both in its label.
TwoIssuesLabelled(list) ==
  \A i \in 1..Len(list) :
    list[i] = <<":", "t", "a", "c", "h", "y", "o", "n", "-", "r", "u", "n", "(", "x", "[">> =>
      /\ i > 1
      /\ list[i - 1] = <<"s", "y", "n", "t", "a", "x", " ", "i", "s", "s", "u", "e", "s", ":", " ", "u", "n", "b", "a", "l", "a", "n", "c", "e", "d", " ", "p", "a", "r", "e", "n", "t", "h", "e", "s", "e", "s", ",", " ", "u", "n", "b", "a", "l", "a", "n", "c", "e", "d", " ", "b", "r", "a", "c", "k", "e", "t", "s">>

\* C23: an invalid rule is reported in riskyPatterns by the label 'syntax
\* issues: ' with all its issues, comma-separated, followed at once by the
\* pattern, the rules in rule-map order; every file with such a rule is
\* audited to its end.
C23_SyntaxLabel ==
  /\ \A n \in 1..Len(findings) :
       /\ LabelsInPlace(findings[n].file, findings[n].riskyPatterns)
       /\ TwoIssuesLabelled(findings[n].riskyPatterns)
  /\ pc \in {"exit", "done"} =>
       \A file \in Range(settingsFiles) :
         (\E e \in Range(ContributedEntries(file)) :
            e.val \in {"true", "false"} /\ ~SyntaxOf[e.pattern].valid)
           => \E n \in 1..Len(findings) : findings[n].file = file

\* The file with a valid risky rule between two invalid rules has its Finding.
C23_Witness ==
  /\ pc = "done"
  /\ opts.allowPrefix = <<"t", "a", "c", "h", "y", "o", "n">>
  /\ Len(findings) = 1
  /\ findings[1].riskyPatterns
       = << <<"s", "y", "n", "t", "a", "x", " ", "i", "s", "s", "u", "e", "s", ":", " ", "u", "n", "b", "a", "l", "a", "n", "c", "e", "d", " ", "p", "a", "r", "e", "n", "t", "h", "e", "s", "e", "s", ",", " ", "u", "n", "b", "a", "l", "a", "n", "c", "e", "d", " ", "b", "r", "a", "c", "k", "e", "t", "s">>,
            <<":", "t", "a", "c", "h", "y", "o", "n", "-", "r", "u", "n", "(", "x", "[">>,
            <<":", "o", "t", "h", "e", "r", "-", "t", "a", "s", "k">>,
            <<"s", "y", "n", "t", "a", "x", " ", "i", "s", "s", "u", "e", "s", ":", " ", "u", "n", "t", "e", "r", "m", "i", "n", "a", "t", "e", "d", " ", "s", "i", "n", "g", "l", "e", " ", "q", "u", "o", "t", "e", "s">>,
            <<":", "t", "a", "c", "h", "y", "o", "n", "-", "s", "a", "y", "'", "h", "i">> >>

\* Is the argument free of wildcard, parent, absolute and home components and
\* not one of the safe build-artifact names.
PlainUnsafeArgument(a) ==
  /\ Len(a) > 0
  /\ \A i \in 1..Len(a) : a[i] # "*"
  /\ ~\E i \in 1..Len(a) : Occurs(a, i, <<".", ".">>)
  /\ ~Occurs(a, 1, <<"/">>)
  /\ ~Occurs(a, 1, <<"~", "/">>)
  /\ ~SomeTest(SAFE_RM_TARGETS, a)

\* The removals of such an argument, behind a rule prefix or none, before a
\* further command or none.
UnsafeRemovals ==
  {h \o c \o a \o t :
     h \in PlainHeads \cup {<<":", "b", "u", "i", "l", "d", "-">>}, c \in RmRfCommands,
     a \in {x \in Arguments : PlainUnsafeArgument(x)}, t \in {<<>>, <<" ", "&">>}}

\* C24: rm -rf of an argument without wildcard, parent, absolute or home
\* component that is no safe build-artifact name is a dangerous removal,
\* whatever the rule's prefix before the command and the text after the
\* argument.
C24_UnsafeArgumentIsDangerous ==
  (cls.phase = "done" /\ cls.pattern \in UnsafeRemovals) => cls.dangerousRm

QuoteChars == {"'", "\"", BackTick}

\* The scan of p from position i on, in the quote q ("" outside quotes), esc
\* after a backslash in a quote: the positions outside quotes, and whether a
\* quote is open at the end.
RECURSIVE QuoteScan(_, _, _, _)
QuoteScan(p, i, q, esc) ==
  IF i > Len(p) THEN [outside |-> {}, open |-> q # ""]
  ELSE IF q = ""
       THEN IF p[i] \in QuoteChars
            THEN QuoteScan(p, i + 1, p[i], FALSE)
            ELSE LET rest == QuoteScan(p, i + 1, "", FALSE)
                 IN [rest EXCEPT !.outside = @ \cup {i}]
       ELSE IF esc THEN QuoteScan(p, i + 1, q, FALSE)
            ELSE IF p[i] = "\\" THEN QuoteScan(p, i + 1, q, TRUE)
            ELSE IF p[i] = q THEN QuoteScan(p, i + 1, "", FALSE)
            ELSE QuoteScan(p, i + 1, q, FALSE)

\* How many of the positions outside quotes hold the character.
CountOutside(p, char) ==
  Cardinality({i \in QuoteScan(p, 1, "", FALSE).outside : p[i] = char})

BracketKinds ==
  { [open |-> "(", close |-> ")", issue |-> <<"u", "n", "b", "a", "l", "a", "n", "c", "e", "d", " ", "p", "a", "r", "e", "n", "t", "h", "e", "s", "e", "s">>],
    [open |-> "[", close |-> "]", issue |-> <<"u", "n", "b", "a", "l", "a", "n", "c", "e", "d", " ", "b", "r", "a", "c", "k", "e", "t", "s">>],
    [open |-> "{", close |-> "}", issue |-> <<"u", "n", "b", "a", "l", "a", "n", "c", "e", "d", " ", "b", "r", "a", "c", "e", "s">>] }

\* C25: brackets are tallied outside quoted strings only: with all quotes
\* terminated, a kind of bracket balanced outside quotes has no issue, and a
\* kind whose counts differ outside quotes has its unbalanced issue.
C25_BracketsOutsideQuotes ==
  cls.phase = "done" =>
    \A b \in BracketKinds :
      LET balanced == CountOutside(cls.pattern, b.open) = CountOutside(cls.pattern, b.close)
      IN /\ (balanced /\ ~QuoteScan(cls.pattern, 1, "", FALSE).open)
              => b.issue \notin Range(cls.syntax.issues)
         /\ ~balanced => b.issue \in Range(cls.syntax.issues)

\* Before the report nothing is written and no exit code is set; the report
\* is behind the last file; exit code 1 ends the run.
ReportAfterLastFile ==
  /\ pc \in {"start", "file", "rules"} => (output = <<>> /\ exitCode = -1)
  /\ pc = "rules" => fileIdx \in 1..Len(settingsFiles)
  /\ pc \in {"exit", "done"} => fileIdx = Len(settingsFiles) + 1
  /\ pc = "exit" => exitCode = -1
  /\ exitCode # -1 => pc = "done"

\* A step passes to the next file or stays at the file, enters the rules of
\* the file it is at, writes only from behind the last file, and sets the
\* exit code once, after the report.
LinearStep ==
  /\ fileIdx' \in {fileIdx, fileIdx + 1}
  /\ settingsFiles' # settingsFiles => pc = "start"
  /\ (pc' = "rules" /\ pc # "rules") => (pc = "file" /\ fileIdx' = fileIdx)
  /\ (pc = "rules" /\ pc' # "rules") => (pc' = "file" /\ fileIdx' = fileIdx + 1)
  /\ output' # output => (output = <<>> /\ fileIdx > Len(settingsFiles) /\ pc' = "exit")
  /\ exitCode' # exitCode => (exitCode = -1 /\ pc = "exit" /\ pc' = "done")

\* C26: a run is one linear pass that ends: each file is entered at most
\* once, the report is written behind the last file only, and the exit code
\* is set at most once, after the report.
C26_LinearPassTerminates ==
  /\ []ReportAfterLastFile
  /\ [][LinearStep]_vars
  /\ <>(pc = "done")

\* A run over two files with a Finding has ended with exit code 1 after
\* its report.
C26_Witness ==
  /\ pc = "done"
  /\ Len(settingsFiles) = 2
  /\ fileIdx = 3
  /\ exitCode = 1
  /\ output # <<>>

\* The boolean rules of a set of files, each as file and position, and the
\* pattern of such a rule.
BooleanRulesOf(files) ==
  {r \in UNION {{<<f, i>> : i \in 1..Len(ContributedEntries(f))} : f \in files} :
     ContributedEntries(r[1])[r[2]].val \in {"true", "false"}}

PatternOfRule(r) == ContributedEntries(r[1])[r[2]].pattern

\* C27: the counts of a prefix are those of the set of audited files, in
\* whatever order the files and their rules come: total, risky and safe count
\* the rules of the prefix, and patterns and riskyList hold each pattern once
\* per occurrence in the files.
C27_OrderIndependentCounts ==
  pc \in {"exit", "done"} =>
    LET rules == BooleanRulesOf(Range(settingsFiles))
        Risky(r) == ExpectedVerdict[opts.allowPrefix][PatternOfRule(r)]
    IN /\ {prefixHealth[m].prefix : m \in 1..Len(prefixHealth)}
            = {ExtractPrefix(PatternOfRule(r)) : r \in rules}
       /\ \A m, n \in 1..Len(prefixHealth) :
            prefixHealth[m].prefix = prefixHealth[n].prefix => m = n
       /\ \A m \in 1..Len(prefixHealth) :
            LET h == prefixHealth[m]
                mine == {r \in rules : ExtractPrefix(PatternOfRule(r)) = h.prefix}
            IN /\ h.totalPatterns = Cardinality(mine)
               /\ h.riskyPatterns = Cardinality({r \in mine : Risky(r)})
               /\ h.safePatterns = Cardinality({r \in mine : ~Risky(r)})
               /\ \A p \in CatalogPatterns :
                    /\ Occurrences(h.patterns, p)
                         = Cardinality({r \in mine : PatternOfRule(r) = p})
                    /\ Occurrences(h.riskyList, p)
                         = Cardinality({r \in mine : PatternOfRule(r) = p /\ Risky(r)})

\* The same two rules have been audited in two files, in opposite orders.
C27_Witness ==
  /\ pc = "done"
  /\ settingsFiles = <<"disabled", "scenarioB">>
  /\ opts.allowPrefix = <<"t", "a", "c", "h", "y", "o", "n">>
  /\ Len(prefixHealth) = 2
  /\ prefixHealth[1].prefix = <<"u", "n", "k", "n", "o", "w", "n">>
  /\ prefixHealth[1].riskyList = <<<<":", "u", "n", "k", "n", "o", "w", "n", "-", "t", "a", "s", "k">>, <<":", "u", "n", "k", "n", "o", "w", "n", "-", "t", "a", "s", "k">>>>
  /\ prefixHealth[2].patterns = <<<<":", "t", "a", "c", "h", "y", "o", "n", "-", "b", "u", "i", "l", "d">>, <<":", "t", "a", "c", "h", "y", "o", "n", "-", "b", "u", "i", "l", "d">>>>

\* C28: invoked without --fail-on-risk the audit runs with failOnRisk false,
\* and a run with findings ends with exit code 0.
C28_FailOnRiskOptIn ==
  (pc = "done" /\ ~opts.argv.failOnRisk /\ Len(findings) > 0) =>
    /\ ~opts.failOnRisk
    /\ exitCode = 0

\* The rule patterns the findings report, the syntax labels left out.
RECURSIVE ReportedRisky(_)
ReportedRisky(found) ==
  IF Len(found) = 0 THEN <<>>
  ELSE SelectSeq(found[1].riskyPatterns, LAMBDA s : ~IsSyntaxLabel(s))
       \o ReportedRisky(Tail(found))

\* The risky lists of all prefixes, and the sum of their risky counts.
RECURSIVE ListedRisky(_)
ListedRisky(health) ==
  IF Len(health) = 0 THEN <<>>
  ELSE health[1].riskyList \o ListedRisky(Tail(health))

RECURSIVE RiskyRules(_)
RiskyRules(health) ==
  IF Len(health) = 0 THEN 0
  ELSE health[1].riskyPatterns + RiskyRules(Tail(health))

\* C29: between files and at the end, each prefix lists as many risky
\* patterns as it counts, each among its patterns, and the patterns the
\* findings report are, with multiplicity, those the prefixes list, so the
\* risky counts add up to the number of risky rules reported.
C29_FindingsMatchHealth ==
  pc \in {"file", "exit", "done"} =>
    /\ \A m \in 1..Len(prefixHealth) :
         /\ Len(prefixHealth[m].riskyList) = prefixHealth[m].riskyPatterns
         /\ \A p \in Range(prefixHealth[m].riskyList) :
              Occurrences(prefixHealth[m].riskyList, p)
                <= Occurrences(prefixHealth[m].patterns, p)
    /\ \A p \in Range(ReportedRisky(findings)) \cup Range(ListedRisky(prefixHealth)) :
         Occurrences(ReportedRisky(findings), p)
           = Occurrences(ListedRisky(prefixHealth), p)
    /\ RiskyRules(prefixHealth) = Len(ReportedRisky(findings))

\* Two files have their findings, one with a syntax label, over two prefixes
\* with risky rules.
C29_Witness ==
  /\ pc = "done"
  /\ Len(findings) = 2
  /\ \E i \in 1..Len(findings[2].riskyPatterns) : IsSyntaxLabel(findings[2].riskyPatterns[i])
  /\ RiskyRules(prefixHealth) >= 3
  /\ Cardinality({m \in 1..Len(prefixHealth) : prefixHealth[m].riskyPatterns > 0}) >= 2

\* The findings of the files of the run in auto-scan mode, without allow-list.
AutoScanFindings == ExpectedFindings(LoadableFiles, Undefined)

\* C30: an allow-list only adds risk: in a run with explicit prefixes every
\* rule that is risky without allow-list is risky, and every Finding of the
\* same files in auto-scan mode is among the findings, with all its entries.
C30_AllowListOnlyAddsRisk ==
  (pc \in {"exit", "done"} /\ explicitPrefixes # <<>>) =>
    /\ \A m \in 1..Len(prefixHealth) :
         \A p \in Range(prefixHealth[m].patterns) :
           ExpectedVerdict[Undefined][p] =>
             Occurrences(prefixHealth[m].riskyList, p)
               = Occurrences(prefixHealth[m].patterns, p)
    /\ \A n \in 1..Len(AutoScanFindings) :
         \E k \in 1..Len(findings) :
           /\ findings[k].file = AutoScanFindings[n].file
           /\ findings[k].nonBoolean = AutoScanFindings[n].nonBoolean
           /\ \A s \in Range(AutoScanFindings[n].riskyPatterns) :
                Occurrences(findings[k].riskyPatterns, s)
                  >= Occurrences(AutoScanFindings[n].riskyPatterns, s)

\* Under the allow-list tachyon a rule of the template that is risky without
\* allow-list is reported next to one risky by the allow-list alone.
C30_Witness ==
  /\ pc = "done"
  /\ opts.allowPrefix = <<"t", "a", "c", "h", "y", "o", "n">>
  /\ opts.settingsFile = "template"
  /\ Len(findings) = 1
  /\ ExpectedVerdict[Undefined][<<":", "t", "a", "c", "h", "y", "o", "n", "-", "r", "e", "b", "o", "o", "t">>]
  /\ ~ExpectedVerdict[Undefined][<<":", "a", ".", "b", "-", "x">>]
  /\ {<<":", "t", "a", "c", "h", "y", "o", "n", "-", "r", "e", "b", "o", "o", "t">>, <<":", "a", ".", "b", "-", "x">>} \subseteq Range(findings[1].riskyPatterns)
  /\ Len(AutoScanFindings) = 1
====
